---- MODULE Spec2Model ----
(***************************************************************************)
(* Inventory Copilot: the Sync Orchestrator (getVariantMetrics and the     *)
(* Metric Store / SyncLog operations around it) and the budget allocator.  *)
(*                                                                         *)
(* Specification Spec     : callers running getVariantMetrics, requestSync *)
(*                          + performSync and logSyncEvent concurrently    *)
(*                          against one Metric Store and one SyncLog.      *)
(* Specification SpecPlan : the budget allocators applied to bounded       *)
(*                          candidate lists.                               *)
(***************************************************************************)
EXTENDS Integers, Sequences, FiniteSets, TLC

VARIABLES
  now,       \* wall clock, in minutes (Date.now())
  store,     \* table InventoryMetric: a set of rows
  syncLog,   \* table SyncLog: a set of entries, each with a unique id
  others,    \* syncs of concurrent requests so far
  pc,        \* per caller: the await it is suspended at
  loc,       \* per caller: the locals of the running operation
  hist,      \* per caller: what the running operation has done so far (history)
  plan,      \* SpecPlan: the allocator's input and output
  forecast,  \* SpecForecast: the forecast engine's input and output
  paging     \* SpecPaginate: a run of paginate on its own

vars == <<now, store, syncLog, others, pc, loc, hist, plan, forecast, paging>>

(***************************************************************************)
(* Bounds of the model.                                                    *)
(***************************************************************************)
TickMinutes == 20
MaxTicks == 2
MaxOtherSyncs == 1
MaxAttempts == 2

Procs == {"p1"}
\* the shop the callers work for, and another tenant of the same database
Shop == "a.myshopify.com"
OtherShop == "b.myshopify.com"

(***************************************************************************)
(* Program constants.                                                      *)
(***************************************************************************)
CACHE_MAX_MINUTES == 30

\* An absent optional number (undefined in a VariantMetrics, NULL in a row):
\* optional numbers are <<>> or <<n>>.
Absent == <<>>
Some(n) == <<n>>
NullStr == "<null>"

Min(a, b) == IF a <= b THEN a ELSE b
Max(a, b) == IF a >= b THEN a ELSE b

SeqToSet(s) == {s[i] : i \in 1..Len(s)}

(***************************************************************************)
(* What the source (Shopify Admin API) may answer.                         *)
(***************************************************************************)
\* ProductVariantNode; unit costs are in cents.
Node1 == [id |-> "v1", sku |-> "SKU-1", title |-> "Black / XL",
          inventoryQuantity |-> Some(38), productTitle |-> "Jacket",
          unitCostAmount |-> Some(3000)]
Node2 == [id |-> "v2", sku |-> NullStr, title |-> "Olive",
          inventoryQuantity |-> Absent, productTitle |-> NullStr,
          unitCostAmount |-> Some(0)]


\* OrderNode: createdAt is given as the order's age in days (<<>> when missing),
\* each line as [variantId, quantity].
Order1 == [ageDays |-> Some(10),
           lines |-> <<[variantId |-> "v2", quantity |-> 12],
                       [variantId |-> NullStr, quantity |-> 3]>>]
Order2 == [ageDays |-> Some(45),
           lines |-> <<[variantId |-> "v2", quantity |-> 5]>>]

\* A response of the Admin API; the source answers a request by its cursor.
Page(nodes, hasNextPage, endCursor) ==
  [kind |-> "data", hasPath |-> TRUE, nodes |-> nodes,
   hasNextPage |-> hasNextPage, endCursor |-> endCursor]
NoPath ==
  [kind |-> "data", hasPath |-> FALSE, nodes |-> <<>>,
   hasNextPage |-> FALSE, endCursor |-> NullStr]
Failure(kind) ==
  [kind |-> kind, hasPath |-> FALSE, nodes |-> <<>>,
   hasNextPage |-> FALSE, endCursor |-> NullStr]

Cursors == {NullStr, "c1"}
Always(response) == [c \in Cursors |-> response]
TwoPages(first, second) == [c \in Cursors |-> IF c = NullStr THEN first ELSE second]

InventorySources ==
  { Always(Page(<<>>, FALSE, NullStr)),
    Always(Page(<<Node1>>, FALSE, NullStr)),
    TwoPages(Page(<<Node1>>, TRUE, "c1"), Page(<<Node2>>, FALSE, NullStr)),
    TwoPages(Page(<<Node1>>, TRUE, "c1"), Page(<<>>, TRUE, "c1")),
    TwoPages(Page(<<Node1>>, TRUE, "c1"), Failure("http")),
    Always(Failure("reject")),
    Always(NoPath) }

OrderSources ==
  { Always(Page(<<>>, FALSE, NullStr)),
    Always(Page(<<Order1, Order2>>, FALSE, NullStr)),
    Always(Page(<<Order1>>, TRUE, NullStr)),
    Always(Failure("errors")) }

(***************************************************************************)
(* fetchVariantInventory: the mapping of the nodes paginate returned.      *)
(***************************************************************************)
MapVariantNode(node) ==
  [id        |-> node.id,
   sku       |-> IF node.sku = NullStr THEN "Unknown SKU" ELSE node.sku,
   name      |-> IF node.productTitle = NullStr THEN "Unknown product"
                 ELSE node.productTitle,
   variant   |-> node.title,
   available |-> IF node.inventoryQuantity = Absent THEN 0
                 ELSE node.inventoryQuantity[1],
   unitCost  |-> IF node.unitCostAmount = Absent \/ node.unitCostAmount[1] = 0
                 THEN Absent ELSE node.unitCostAmount]

MapInventory(nodes) == [i \in 1..Len(nodes) |-> MapVariantNode(nodes[i])]

(***************************************************************************)
(* fetchOrderSales: the sales Map, kept as an insertion-ordered sequence   *)
(* of [id, buckets].                                                       *)
(***************************************************************************)
ZeroBuckets == [d30 |-> 0, d60 |-> 0, d90 |-> 0]

MapIndex(m, id) ==
  IF \E i \in 1..Len(m) : m[i].id = id
  THEN CHOOSE i \in 1..Len(m) : m[i].id = id
  ELSE 0

AddToBuckets(b, diffDays, quantity) ==
  [d30 |-> IF diffDays <= 30 THEN b.d30 + quantity ELSE b.d30,
   d60 |-> IF diffDays <= 60 THEN b.d60 + quantity ELSE b.d60,
   d90 |-> IF diffDays <= 90 THEN b.d90 + quantity ELSE b.d90]

AddLine(sales, diffDays, line) ==
  IF line.variantId = NullStr THEN sales
  ELSE LET i == MapIndex(sales, line.variantId)
           b == IF i = 0 THEN ZeroBuckets ELSE sales[i].buckets
           e == [id |-> line.variantId,
                 buckets |-> AddToBuckets(b, diffDays, line.quantity)]
       IN  IF i = 0 THEN Append(sales, e) ELSE [sales EXCEPT ![i] = e]

RECURSIVE AddLines(_, _, _, _)
AddLines(sales, diffDays, lines, k) ==
  IF k > Len(lines) THEN sales
  ELSE AddLines(AddLine(sales, diffDays, lines[k]), diffDays, lines, k + 1)

RECURSIVE AddOrders(_, _, _)
AddOrders(sales, orders, k) ==
  IF k > Len(orders) THEN sales
  ELSE IF orders[k].ageDays = Absent THEN AddOrders(sales, orders, k + 1)
  ELSE AddOrders(AddLines(sales, orders[k].ageDays[1], orders[k].lines, 1),
                 orders, k + 1)

MapOrders(orders) == AddOrders(<<>>, orders, 1)

(***************************************************************************)
(* logEvent: appends one SyncLog entry; a failed write is swallowed.       *)
(* sinkOk is whether prisma.syncLog.create succeeds.  Messages are short   *)
(* tags, all below MAX_MESSAGE_LENGTH, so normalizeMessage keeps them.     *)
(***************************************************************************)
\* The id of a new entry (a cuid in the program): its creator and the number
\* of entries the creator has written.
NewId(log, p) == <<p, Cardinality({e \in log : e.id[1] = p}) + 1>>

LogEntry(id, shop, scope, status, message) ==
  [id |-> id, shopDomain |-> shop, scope |-> scope, status |-> status,
   message |-> message]

logEvent(log, p, shop, type, status, message, sinkOk) ==
  IF sinkOk THEN log \cup {LogEntry(NewId(log, p), shop, type, status, message)}
  ELSE log

(***************************************************************************)
(* executeGraphql on one response of the Admin API.  A response is         *)
(*   [kind |-> "reject"]   admin.graphql itself rejects                    *)
(*   [kind |-> "http"]     !response.ok                                    *)
(*   [kind |-> "errors"]   json.errors is not empty                        *)
(*   [kind |-> "nodata"]   json.data is missing                            *)
(*   [kind |-> "data", hasPath, nodes, hasNextPage, endCursor]             *)
(* The result says whether it threw and which failure message it logged.   *)
(***************************************************************************)
executeGraphql(response) ==
  CASE response.kind = "reject" -> [threw |-> TRUE,  logs |-> <<>>]
    [] response.kind = "http"   -> [threw |-> TRUE,  logs |-> <<"GraphQL failed with status">>]
    [] response.kind = "errors" -> [threw |-> TRUE,  logs |-> <<"GraphQL errors">>]
    [] response.kind = "nodata" -> [threw |-> TRUE,  logs |-> <<"GraphQL returned no data">>]
    [] OTHER                    -> [threw |-> FALSE, logs |-> <<>>]

(***************************************************************************)
(* paginate.  The source is a function from the cursor sent (NullStr for   *)
(* undefined) to the response.  st is the loop state                       *)
(* [records, cursor, hasNextPage, guard, logs, threw, sent].               *)
(***************************************************************************)
PaginateInit ==
  [records |-> <<>>, cursor |-> NullStr, hasNextPage |-> TRUE, guard |-> 0,
   logs |-> <<>>, threw |-> FALSE, sent |-> <<>>]

\* A guard that writes nothing.
GuardSilent(st) == st

\* if (hasNextPage) await logEvent(... "Pagination guard triggered ...")
GuardLog(st) ==
  IF st.hasNextPage
  THEN [st EXCEPT !.logs = Append(@, "Pagination guard triggered")]
  ELSE st

RECURSIVE PaginateLoop(_, _, _)
PaginateLoop(source, limitPages, st) ==
  IF ~(st.hasNextPage /\ st.guard < limitPages) THEN GuardLog(st)
  ELSE LET response == source[st.cursor]
           asked    == [st EXCEPT !.sent = Append(@, st.cursor)]
           data     == executeGraphql(response)
       IN  IF data.threw
           THEN [asked EXCEPT !.logs = @ \o data.logs, !.threw = TRUE]
           ELSE IF ~response.hasPath
           THEN GuardLog([asked EXCEPT !.logs = Append(@, "Missing path in GraphQL response")])
           ELSE PaginateLoop(source, limitPages,
                  [asked EXCEPT !.records = @ \o response.nodes,
                                !.hasNextPage = response.hasNextPage,
                                !.cursor = response.endCursor,
                                !.guard = @ + 1])

paginate(source, limitPages) == PaginateLoop(source, limitPages, PaginateInit)

\* Writing the failure entries a paginate run produced, each through logEvent.
RECURSIVE LogAll(_, _, _, _, _, _)
LogAll(log, p, shop, messages, oks, k) ==
  IF k > Len(messages) THEN log
  ELSE LogAll(logEvent(log, p, shop, "sync", "failure", messages[k], oks[k]),
              p, shop, messages, oks, k + 1)

(***************************************************************************)
(* paginate on its own: the responses and page limits it is tried on.      *)
(***************************************************************************)
PageResponses ==
  { Page(<<>>, FALSE, NullStr),
    Page(<<Node1>>, TRUE, "c1"),
    Page(<<Node2>>, TRUE, NullStr),
    Page(<<Node1, Node2>>, FALSE, "c1"),
    NoPath,
    Failure("http") }

PageSources == [Cursors -> PageResponses]

\* limitPages: 10 by default (product variants), 5 for orders, 3 for locations
PageLimits == {3, 5, 10}

\* the nodes of the responses to the requests sent
RECURSIVE PagesRead(_, _)
PagesRead(source, sent) ==
  IF sent = <<>> THEN <<>>
  ELSE source[Head(sent)].nodes \o PagesRead(source, Tail(sent))

NoPaging ==
  [stage |-> "off", source |-> <<>>, limitPages |-> 0, run |-> PaginateInit, oks |-> <<>>]

(***************************************************************************)
(* getVariantMetrics: the merge of the two streams (lines 69-86).          *)
(***************************************************************************)
\* new Map(inventory.map(item => [item.id, item])): keys in first-insertion
\* order, the value of a key is the last item carrying it.
RECURSIVE MapKeys(_, _, _)
MapKeys(items, keys, k) ==
  IF k > Len(items) THEN keys
  ELSE MapKeys(items,
               IF items[k].id \in SeqToSet(keys) THEN keys ELSE Append(keys, items[k].id),
               k + 1)

MapGet(items, id) ==
  LET hits == {i \in 1..Len(items) : items[i].id = id}
  IN  IF hits = {} THEN Absent
      ELSE Some(items[CHOOSE i \in hits : \A j \in hits : j <= i])

\* The ids of the inventory stream alone.
MergeIdsOfInventory(inventory, sales) == MapKeys(inventory, <<>>, 1)

\* const ids = new Set([...inventoryById.keys(), ...sales.keys()])
MergeIds(inventory, sales) == MapKeys(sales, MapKeys(inventory, <<>>, 1), 1)

MergeOne(inventory, sales, id) ==
  LET inventoryItem == MapGet(inventory, id)
      salesEntry    == MapGet(sales, id)
      salesBuckets  == IF salesEntry = Absent THEN ZeroBuckets
                       ELSE salesEntry[1].buckets
  IN  [id        |-> id,
       sku       |-> IF inventoryItem = Absent THEN "Unknown SKU" ELSE inventoryItem[1].sku,
       name      |-> IF inventoryItem = Absent THEN "Unknown product" ELSE inventoryItem[1].name,
       variant   |-> IF inventoryItem = Absent THEN "" ELSE inventoryItem[1].variant,
       available |-> IF inventoryItem = Absent THEN 0 ELSE inventoryItem[1].available,
       unitCost  |-> IF inventoryItem = Absent THEN Absent ELSE inventoryItem[1].unitCost,
       sales     |-> salesBuckets]

MergeStreams(inventory, sales) ==
  LET ids == MergeIds(inventory, sales)
  IN  [i \in 1..Len(ids) |-> MergeOne(inventory, sales, ids[i])]

(***************************************************************************)
(* The Metric Store.                                                       *)
(***************************************************************************)
MetricRow(shop, variant, t) ==
  [shopDomain |-> shop, variantId |-> variant.id, sku |-> variant.sku,
   name |-> variant.name, variantTitle |-> variant.variant,
   available |-> variant.available, unitCost |-> variant.unitCost,
   sales30d |-> variant.sales.d30, sales60d |-> variant.sales.d60,
   sales90d |-> variant.sales.d90, lastCalculated |-> t]

\* An insert that does not look for the row of the key: what the upsert would
\* do without the unique index on (shopDomain, variantId).
InsertWithoutKey(rows, shop, variant, t) ==
  rows \cup {MetricRow(shop, variant, t)}

\* prisma.inventoryMetric.upsert, keyed by the unique index (shopDomain, variantId)
Upsert(rows, shop, variant, t) ==
  {r \in rows : ~(r.shopDomain = shop /\ r.variantId = variant.id)}
    \cup {MetricRow(shop, variant, t)}

RECURSIVE UpsertFrom(_, _, _, _, _)
UpsertFrom(rows, shop, variants, t, k) ==
  IF k > Len(variants) THEN rows
  ELSE UpsertFrom(Upsert(rows, shop, variants[k], t), shop, variants, t, k + 1)

\* The upserts awaited one by one instead of in one transaction: a failure
\* after the first leaves that one written.
saveWithoutTransaction(rows, shop, variants, t, dbOk) ==
  IF dbOk THEN UpsertFrom(rows, shop, variants, t, 1)
  ELSE Upsert(rows, shop, variants[1], t)

\* saveVariantMetrics: one $transaction of upserts; when the transaction fails
\* (dbOk = FALSE) it is rolled back and the call throws.
saveVariantMetrics(rows, shop, variants, t, dbOk) ==
  IF dbOk THEN UpsertFrom(rows, shop, variants, t, 1) ELSE rows

\* A where clause that drops the lastCalculated filter.
WhereMatchesAnyAge(row, shop, t, maxMinutes) ==
  row.shopDomain = shop

\* A where clause whose window is computed in the wrong unit (maxMinutes * 60
\* milliseconds): it shrinks to the instant of the read.
WhereMatchesWrongUnit(row, shop, t, maxMinutes) ==
  /\ row.shopDomain = shop
  /\ \/ maxMinutes = Absent
     \/ maxMinutes[1] = 0
     \/ row.lastCalculated >= t

\* getCachedVariantMetrics: the where clause; maxMinutes is <<>> (undefined)
\* or <<n>>, and a falsy n (0) adds no filter.
WhereMatches(row, shop, t, maxMinutes) ==
  /\ row.shopDomain = shop
  /\ \/ maxMinutes = Absent
     \/ maxMinutes[1] = 0
     \/ row.lastCalculated >= t - maxMinutes[1]

findMany(rows, shop, t, maxMinutes) ==
  {r \in rows : WhereMatches(r, shop, t, maxMinutes)}

\* orderBy lastCalculated desc: every order of the rows the database may
\* return (ties in any order).
OrderedDesc(rows) ==
  {s \in [1..Cardinality(rows) -> rows] :
     /\ \A i, j \in 1..Cardinality(rows) : i # j => s[i] # s[j]
     /\ \A i, j \in 1..Cardinality(rows) :
          i < j => s[i].lastCalculated >= s[j].lastCalculated}

RowToMetric(row) ==
  [id |-> row.variantId, sku |-> row.sku, name |-> row.name,
   variant |-> row.variantTitle, available |-> row.available,
   unitCost |-> row.unitCost,
   sales |-> [d30 |-> row.sales30d, d60 |-> row.sales60d, d90 |-> row.sales90d]]

RowsToMetrics(rows) == [i \in 1..Len(rows) |-> RowToMetric(rows[i])]

(***************************************************************************)
(* getSampleVariantMetrics: the fixed synthetic baseline.  Unit costs are  *)
(* in cents.                                                               *)
(***************************************************************************)
Sample(id, sku, name, variant, available, unitCost, s30, s60, s90) ==
  [id |-> id, sku |-> sku, name |-> name, variant |-> variant,
   available |-> available, unitCost |-> Some(unitCost),
   sales |-> [d30 |-> s30, d60 |-> s60, d90 |-> s90]]

getSampleVariantMetrics ==
  << Sample("gid://shopify/ProductVariant/1", "TS-XL-BLK", "Tech Shell Jacket", "Black / XL", 38, 3000, 162, 282, 369),
     Sample("gid://shopify/ProductVariant/2", "HB12-OLV-128", "Heritage Bottle", "Olive 12oz", 120, 850, 363, 618, 819),
     Sample("gid://shopify/ProductVariant/3", "ATH-SHORT-NV-M", "Aero Run Short", "Navy / M", 68, 1500, 276, 468, 594),
     Sample("gid://shopify/ProductVariant/4", "CASE-IPH15-MT", "Magnetic Case iPhone 15", "Matte Black", 44, 1200, 204, 354, 459),
     Sample("gid://shopify/ProductVariant/5", "SOCK-MER-BLK", "Merino Crew Sock", "Black / 2-pack", 150, 600, 342, 552, 729),
     Sample("gid://shopify/ProductVariant/6", "SOFA-2S-GRY", "Mod Sofa 2-seater", "Gray", 188, 10000, 36, 68, 92),
     Sample("gid://shopify/ProductVariant/7", "CNDL-WHT-3PK", "Scented Candle Set", "White Tea / 3-pack", 420, 2900, 105, 190, 270),
     Sample("gid://shopify/ProductVariant/8", "MAT-YOGA-SND", "Studio Yoga Mat", "Sand", 260, 3600, 72, 126, 171),
     Sample("gid://shopify/ProductVariant/9", "BAG-TOTE-CRM", "Canvas Day Tote", "Cream", 344, 3000, 123, 198, 241),
     Sample("gid://shopify/ProductVariant/10", "LAMP-DESK-GLD", "Brass Desk Lamp", "Gold", 140, 5600, 33, 55, 75) >>

(***************************************************************************)
(* The callers.                                                            *)
(***************************************************************************)
NoLocals ==
  [op |-> "none", shop |-> "", jobId |-> <<>>, inv |-> "idle", ord |-> "idle",
   inventory |-> <<>>, sales |-> <<>>, variants |-> <<>>, result |-> <<>>,
   attempt |-> 0]

\* History of the running operation, for stating the claims:
\*   tier       which tier getVariantMetrics returned ("none" while it runs)
\*   freshRead  TRUE once the freshness-filtered read has been answered
\*   hadFresh   the store held a row of the shop inside the window at that read
\*   live       the live attempt: "none", "ok", "empty" or "threw"
\*   merged     TRUE once both streams were merged
\*   anyRead    the unfiltered read: "unread", "none" or "some"
\*   hadAny     the store held a row of the shop at the unfiltered read
\*   inWindow   every row a cache tier returned was inside the freshness window
\*              when it was read
\*   appended   SyncLog entries this operation appended
\*   sinkFailed TRUE once a SyncLog write of this operation failed
\*   requested  a request was sent to the source
\*   writes     committed Metric Store transactions
\*   gvmRaised  getVariantMetrics raised to its caller
\*   raisedBy   the failure that made the operation raise ("" when none)
\*   resaved    the committed transaction repeated the shop's previous one
NoHistory ==
  [tier |-> "none", freshRead |-> FALSE, hadFresh |-> FALSE, live |-> "none",
   merged |-> FALSE, anyRead |-> "unread", hadAny |-> FALSE, inWindow |-> TRUE,
   appended |-> 0, sinkFailed |-> FALSE, requested |-> FALSE, writes |-> 0,
   gvmRaised |-> FALSE, raisedBy |-> "", resaved |-> FALSE]

(***************************************************************************)
(* The forecast engine: computeCoverage and buildRowsForTimeframe           *)
(* (logger.server.ts 1514-1594) and getOverstockData (part_002 15-67).      *)
(* A daily average is the fraction num / den; coverage days and the rounded *)
(* average are in tenths.                                                   *)
(***************************************************************************)
MaxVariants == 2

MIN_SALES_FOR_FORECAST == 10

\* default of the coverage cap, in days
MAX_COVERAGE_DAYS == 999

\* the values tried for the floor MIN_DAILY_SALES: 0.1 and 0.01 units a day
MinDailySales == {[num |-> 1, den |-> 10], [num |-> 1, den |-> 100]}

Variant(id, available, unitCost, s30, s60, s90) == [id |-> id, sku |-> id, name |-> id, variant |-> "", available |-> available, unitCost |-> unitCost, sales |-> [d30 |-> s30, d60 |-> s60, d90 |-> s90]]

\* The variants the engine is tried on: sold out; fast mover; stock without
\* any sale; too few sales in 30 days but enough in 60; oversold (negative
\* stock); slow mover with a large stock; one unit a day with 50 in stock;
\* sold out with too few sales; oversold with too few sales.
VariantSeq ==
  << Variant("V1", 0, Some(850), 31, 31, 31),
    Variant("V2", 10, Some(3000), 300, 300, 310),
    Variant("V3", 100, Absent, 0, 0, 0),
    Variant("V4", 5, Some(850), 9, 11, 12),
    Variant("V5", 0 - 3, Absent, 10, 10, 10),
    Variant("V6", 100, Some(100), 10, 31, 300),
    Variant("V7", 50, Some(100), 30, 60, 90),
    Variant("V8", 0, Some(850), 5, 5, 5),
    Variant("V9", 0 - 2, Some(850), 4, 8, 12) >>

VariantPool == SeqToSet(VariantSeq)

\* every list of up to MaxVariants variants, and the whole pool in each of its
\* rotations, forwards and backwards
VariantLists ==
  UNION {[1..n -> VariantPool] : n \in 0..MaxVariants}
    \cup {[i \in 1..Len(VariantSeq) |-> VariantSeq[((i + k) % Len(VariantSeq)) + 1]] :
            k \in 1..Len(VariantSeq)}
    \cup {[i \in 1..Len(VariantSeq) |->
             VariantSeq[((2 * Len(VariantSeq) + k - i) % Len(VariantSeq)) + 1]] :
            k \in 1..Len(VariantSeq)}

Timeframes == {"30d", "60d", "90d"}

\* the saved settings: [leadTime, safetyDays]
LeadAndSafety == {[leadTime |-> 14, safetyDays |-> 7], [leadTime |-> 30, safetyDays |-> 15]}

\* the thresholds handed to getOverstockData
OverstockThresholds ==
  {[overstockThresholdDays |-> 60, mildOverstockThresholdDays |-> 45],
   [overstockThresholdDays |-> 45, mildOverstockThresholdDays |-> 30]}

\* const days = timeframe === "30d" ? 30 : timeframe === "60d" ? 60 : 90
DaysOf(timeframe) == IF timeframe = "30d" THEN 30 ELSE IF timeframe = "60d" THEN 60 ELSE 90

SalesIn(variant, timeframe) ==
  IF timeframe = "30d" THEN variant.sales.d30
  ELSE IF timeframe = "60d" THEN variant.sales.d60 ELSE variant.sales.d90

\* Math.round(n / d) for n >= 0, d > 0: halves go up
RoundDiv(n, d) == (2 * n + d) \div (2 * d)

\* Math.ceil(n / d) for d > 0
CeilDiv(n, d) == IF n >= 0 THEN (n + d - 1) \div d ELSE 0 - ((0 - n) \div d)

FracMax(a, b) == IF a.num * b.den >= b.num * a.den THEN a ELSE b

\* safeDivide(numerator, denominator, 0) of an integer by a fraction
safeDivide(numerator, denominator) ==
  IF denominator.num = 0 THEN [num |-> 0, den |-> 1]
  ELSE [num |-> numerator * denominator.den, den |-> denominator.num]

\* round1: Math.round(value * 10) / 10, in tenths
round1(value) == RoundDiv(10 * value.num, value.den)

\* A coverage that is not capped.
computeCoverageUncapped(available, avgDailySales, minDailySales) ==
  IF available <= 0 THEN 0
  ELSE Max(0, round1(safeDivide(available, FracMax(avgDailySales, minDailySales))))

\* computeCoverage(available, avgDailySales), in tenths of a day
computeCoverage(available, avgDailySales, minDailySales) ==
  IF available <= 0 THEN 0
  ELSE LET adjustedSales == FracMax(avgDailySales, minDailySales)
           rawCoverage == safeDivide(available, adjustedSales)
           rounded == Max(0, round1(rawCoverage))
       IN  Min(rounded, MAX_COVERAGE_DAYS * 10)

\* A floor test that takes any sale as enough.
HasAnySales(sales) == sales > 0

\* const hasEnoughSales = sales >= MIN_SALES_FOR_FORECAST
HasEnoughSales(sales) == sales >= MIN_SALES_FOR_FORECAST

\* Inputs <<sales, days, targetCoverage, available>> at which the double-precision value of
\* (sales / days) * targetCoverage - available lies just above the integer it
\* equals in exact arithmetic (31 / 30 * 30 is 31.000000000000004), so that
\* Math.ceil gives one more.
CeilOneAbove == {<<31, 30, 30, 0>>, <<31, 30, 30, 5>>, <<31, 30, 30, 10>>}

\* Math.ceil(avgDailySalesRaw * targetCoverage - variant.available)
CeilOfNeed(sales, days, targetCoverage, available) ==
  CeilDiv(sales * targetCoverage - available * days, days)
    + (IF <<sales, days, targetCoverage, available>> \in CeilOneAbove THEN 1 ELSE 0)

\* the row buildRowsForTimeframe builds of one variant
ForecastRow(variant, timeframe, targetCoverage, minDailySales) ==
  LET days == DaysOf(timeframe)
      sales == SalesIn(variant, timeframe)
      hasEnoughSales == HasEnoughSales(sales)
      avgDailySalesRaw == IF hasEnoughSales THEN [num |-> sales, den |-> days]
                          ELSE [num |-> 0, den |-> 1]
      daysOfStock == computeCoverage(variant.available, avgDailySalesRaw, minDailySales)
      recommendedQty ==
        IF avgDailySalesRaw.num = 0 THEN 0
        ELSE Max(0, CeilOfNeed(sales, days, targetCoverage, variant.available))
      cost == IF variant.unitCost = Absent THEN 0 ELSE variant.unitCost[1]
  IN  [sku |-> variant.sku, name |-> variant.name, variant |-> variant.variant,
       available |-> variant.available, avgDailySales |-> round1(avgDailySalesRaw),
       daysOfStock |-> daysOfStock, recommendedQty |-> recommendedQty,
       coverageDays |-> daysOfStock, stockValue |-> cost * variant.available,
       unitCost |-> variant.unitCost, sales |-> sales, salesValue |-> cost * sales,
       insufficientSales |-> ~hasEnoughSales]

buildRowsForTimeframe(variants, timeframe, targetCoverage, minDailySales) ==
  [i \in 1..Len(variants) |-> ForecastRow(variants[i], timeframe, targetCoverage, minDailySales)]

\* const targetCoverageDays = Math.max(leadTimeDays + safetyDays, 30)
TargetCoverageDays(settings) == Max(settings.leadTime + settings.safetyDays, 30)

\* the row getOverstockData builds of one variant
OverstockRow(variant, thresholds, minDailySales) ==
  LET sales30d == variant.sales.d30
      avgDailySales == [num |-> sales30d, den |-> 30]
      coverageDays == computeCoverage(variant.available, avgDailySales, minDailySales)
      cost == IF variant.unitCost = Absent THEN 0 ELSE variant.unitCost[1]
      severity ==
        IF sales30d = 0 \/ coverageDays >= thresholds.overstockThresholdDays * 10
        THEN "severe"
        ELSE IF coverageDays >= thresholds.mildOverstockThresholdDays * 10
             THEN "mild" ELSE "normal"
  IN  [sku |-> variant.sku, name |-> variant.name, variant |-> variant.variant,
       available |-> variant.available, sales30d |-> sales30d,
       avgDailySales |-> avgDailySales, coverageDays |-> coverageDays,
       stockValue |-> cost * variant.available, unitCost |-> variant.unitCost,
       severity |-> severity]

\* A filter that keeps every row.
KeepEvery(row) == TRUE

\* .filter((row) => row.available > 0)
KeepInStock(row) == row.available > 0

RECURSIVE SumStockValue(_)
SumStockValue(rows) ==
  IF rows = <<>> THEN 0 ELSE Head(rows).stockValue + SumStockValue(Tail(rows))

\* getOverstockData after the variants are loaded: rows and summary
getOverstockData(variants, thresholds, minDailySales) ==
  LET rows == SelectSeq([i \in 1..Len(variants) |->
                           OverstockRow(variants[i], thresholds, minDailySales)],
                        KeepInStock)
      severeRows == SelectSeq(rows, LAMBDA row : row.severity = "severe")
      over == SelectSeq(rows, LAMBDA row :
                          row.coverageDays >= thresholds.overstockThresholdDays * 10)
  IN  [rows |-> rows,
       summary |-> [overstockCount |-> Len(over), severeCount |-> Len(severeRows),
                    totalStockValue |-> SumStockValue(rows),
                    severeStockValue |-> SumStockValue(severeRows)]]

NoSummary == [overstockCount |-> 0, severeCount |-> 0, totalStockValue |-> 0, severeStockValue |-> 0]

\* the shortage thresholds (days) handed to buildTimeframe
ShortageThresholds == {10, 14}

MIN_RECOMMENDED_QTY == 5

\* Array.prototype.sort with the comparator (a, b) => key(a) - key(b), which
\* is stable: the element of rank r is the one with r - 1 elements before it
StableSort(seq, keys) ==
  [r \in 1..Len(seq) |->
     seq[CHOOSE i \in 1..Len(seq) :
           Cardinality({j \in 1..Len(seq) :
                          \/ keys[j] < keys[i]
                          \/ (keys[j] = keys[i] /\ j < i)}) + 1 = r]]

\* A shortage filter that looks at the coverage alone.
QualifiesByCoverage(row, shortageThreshold) ==
  row.daysOfStock <= shortageThreshold * 10

\* row.daysOfStock <= shortageThreshold || row.recommendedQty >= MIN_RECOMMENDED_QTY
QualifiesForShortage(row, shortageThreshold) ==
  row.daysOfStock <= shortageThreshold * 10 \/ row.recommendedQty >= MIN_RECOMMENDED_QTY

\* buildTimeframe: the shortage and overstock lists (the KPI cards are
\* counts and sums of the same rows and lists)
buildTimeframe(rows, timeframe, shortageThreshold, overstockThreshold) ==
  LET qualifying == SelectSeq(rows, LAMBDA row : QualifiesForShortage(row, shortageThreshold))
      byDays == StableSort(qualifying, [i \in 1..Len(qualifying) |-> qualifying[i].daysOfStock])
      over == SelectSeq(rows, LAMBDA row : row.coverageDays >= overstockThreshold * 10)
      byValue == StableSort(over, [i \in 1..Len(over) |-> 0 - over[i].stockValue])
  IN  [shortage |-> SubSeq(byDays, 1, Min(5, Len(byDays))),
       overstock |-> SubSeq(byValue, 1, Min(5, Len(byValue))),
       rows |-> rows]

NoForecast ==
  [stage |-> "off", variants |-> <<>>, settings |-> [leadTime |-> 0, safetyDays |-> 0],
   minDailySales |-> [num |-> 0, den |-> 1],
   thresholds |-> [overstockThresholdDays |-> 0, mildOverstockThresholdDays |-> 0],
   timeframe |-> "", rows |-> <<>>, summary |-> NoSummary,
   shortageThreshold |-> 0, shortage |-> <<>>, overstock |-> <<>>]

(***************************************************************************)
(* The budget allocator: buildBudgetPlan (logger.server.ts 1646-1704) and   *)
(* buildBudgetPlanFromRows (part_005 538-597).  Money is in cents, so one   *)
(* dollar is 100; a score is the fraction num / den.                        *)
(***************************************************************************)
MaxRows == 3

SHORTAGE_THRESHOLD == 10
DEFAULT_LEAD_TIME_DAYS == 14
SAFETY_DAYS == 7
TARGET_COVERAGE == Max(DEFAULT_LEAD_TIME_DAYS + SAFETY_DAYS, 30)

\* const budget = 18000 (dollars)
DefaultBudget == 18000 * 100

BudgetCandidate(sku, available, avgDailySales, daysOfStock, recommendedQty, unitCost, sales, salesValue, stockValue) ==
  [sku |-> sku, name |-> sku, available |-> available,
   avgDailySales |-> avgDailySales, daysOfStock |-> daysOfStock,
   recommendedQty |-> recommendedQty, unitCost |-> unitCost, sales |-> sales,
   salesValue |-> salesValue, stockValue |-> stockValue]

\* The rows the allocator is tried on (money in cents, daysOfStock in tenths
\* of a day, as computeCoverage rounds it): a costed row, a row out of stock,
\* a row whose cost comes from its stock value, a row without any cost, a
\* second row of sku "A" that alone exceeds the default budget and has no
\* sales value, a row with nothing to order, a row whose spend is not a whole
\* dollar, a row whose unit cost is negative, a row like the one out of stock
\* but with one unit left (a tenth of a day), and a row whose sales value is
\* half a dollar.
RowPool ==
  { BudgetCandidate("A", 20, 10, 20, 50, Some(10000), Absent, Some(90000), Some(200000)),
    BudgetCandidate("B", 0, 3, 0, 90, Some(10000), Some(30), Absent, Absent),
    BudgetCandidate("C", 4, 1, 50, 30, Absent, Absent, Absent, Some(120000)),
    BudgetCandidate("D", 1, 1, 10, 10, Absent, Some(4), Absent, Absent),
    BudgetCandidate("A", 100, 10, 100, 200, Some(10000), Absent, Some(0), Absent),
    BudgetCandidate("F", 50, 1, 500, 0, Some(500), Some(30), Absent, Absent),
    BudgetCandidate("G", 2, 1, 20, 3, Some(850), Some(12), Absent, Absent),
    BudgetCandidate("N", 6, 2, 30, 4, Some(0 - 500), Some(60), Absent, Absent),
    BudgetCandidate("H", 1, 3, 1, 90, Some(10000), Some(30), Absent, Absent),
    BudgetCandidate("K", 3, 1, 30, 5, Some(5), Some(10), Some(50), Absent) }

RowLists == UNION {[1..n -> RowPool] : n \in 0..MaxRows}

\* the budgets typed into the budget input (type="number", no minimum)
PlanBudgets == {0 - 100, 0, 10000 * 100}

\* value.toLocaleString("en-US", {style: "currency", currency: "USD",
\* maximumFractionDigits: 0}) of a value >= 0: whole dollars, halves rounded up
formatCurrency(value) == [currency |-> "USD", dollars |-> (value + 50) \div 100]

Truthy(opt) == opt # Absent /\ opt[1] # 0

\* row.unitCost ?? (row.stockValue && row.available > 0
\*                    ? row.stockValue / row.available : undefined) ?? 0
UnitCostOf(row) ==
  IF row.unitCost # Absent THEN row.unitCost[1]
  ELSE IF Truthy(row.stockValue) /\ row.available > 0
       THEN row.stockValue[1] \div row.available
       ELSE 0

\* row.daysOfStock > 0 ? 1 / row.daysOfStock : 2
RiskScore(row) ==
  IF row.daysOfStock > 0 THEN [num |-> 10, den |-> row.daysOfStock]
  ELSE [num |-> 2, den |-> 1]

\* row.salesValue ?? (row.sales ? row.sales * Math.max(unitCost, 1)
\*                              : row.avgDailySales * 30 * Math.max(unitCost, 1))
Importance(row, unitCost) ==
  IF row.salesValue # Absent THEN row.salesValue[1]
  ELSE IF Truthy(row.sales) THEN row.sales[1] * Max(unitCost, 100)
       ELSE row.avgDailySales * 30 * Max(unitCost, 100)

\* the map step: { row, unitCost, spend, score }
Scored(row) ==
  LET unitCost == UnitCostOf(row)
      importance == Importance(row, unitCost)
      risk == RiskScore(row)
  IN  [row |-> row, unitCost |-> unitCost,
       spend |-> row.recommendedQty * unitCost,
       score |-> [num |-> risk.num * (IF importance = 0 THEN 100 ELSE importance),
                  den |-> risk.den]]

ScoreLess(a, b) == a.num * b.den < b.num * a.den

\* rows.filter((row) => row.recommendedQty > 0).map(...)
RECURSIVE FilterAndScore(_)
FilterAndScore(rows) ==
  IF rows = <<>> THEN <<>>
  ELSE (IF Head(rows).recommendedQty > 0 THEN <<Scored(Head(rows))>> ELSE <<>>)
         \o FilterAndScore(Tail(rows))

\* .sort((a, b) => b.score - a.score): descending, stable
RECURSIVE InsertByScore(_, _)
InsertByScore(sorted, c) ==
  IF sorted = <<>> THEN <<c>>
  ELSE IF ScoreLess(Head(sorted).score, c.score) THEN <<c>> \o sorted
       ELSE <<Head(sorted)>> \o InsertByScore(Tail(sorted), c)

RECURSIVE SortByScore(_)
SortByScore(cs) ==
  IF cs = <<>> THEN <<>>
  ELSE InsertByScore(SortByScore(SubSeq(cs, 1, Len(cs) - 1)), cs[Len(cs)])

Candidates(rows) == SortByScore(FilterAndScore(rows))

\* An admission test that compares each spend with the budget on its own.
AdmitsEachAlone(used, spend, budget, picked) ==
  spend <= budget \/ picked = 0

\* An admission test without the forced first pick.
AdmitsWithinBudgetOnly(used, spend, budget, picked) ==
  used + spend <= budget

\* used + spend <= budget || picks.length === 0
Admits(used, spend, budget, picked) ==
  used + spend <= budget \/ picked = 0

\* the pick pushed for an admitted candidate
Pick(c) ==
  [sku |-> c.row.sku, name |-> c.row.name, qty |-> c.row.recommendedQty,
   amount |-> formatCurrency(c.spend),
   risk |-> IF c.row.daysOfStock <= SHORTAGE_THRESHOLD * 10 THEN "hot" ELSE "tight"]

\* candidates.forEach(...): acc.picked are the admitted candidates, in order
RECURSIVE Fill(_, _, _, _)
Fill(candidates, budget, k, acc) ==
  IF k > Len(candidates) THEN acc
  ELSE LET c == candidates[k]
       IN  IF c.spend <= 0 THEN Fill(candidates, budget, k + 1, acc)
           ELSE IF Admits(acc.used, c.spend, budget, Len(acc.picked))
                THEN Fill(candidates, budget, k + 1,
                          [used |-> acc.used + c.spend, picked |-> Append(acc.picked, c)])
                ELSE Fill(candidates, budget, k + 1, acc)

GreedyFill(candidates, budget) ==
  Fill(candidates, budget, 1, [used |-> 0, picked |-> <<>>])

RECURSIVE SumSpend(_)
SumSpend(cs) == IF cs = <<>> THEN 0 ELSE Head(cs).spend + SumSpend(Tail(cs))

RECURSIVE WithoutSkus(_, _)
WithoutSkus(cs, skus) ==
  IF cs = <<>> THEN <<>>
  ELSE (IF Head(cs).row.sku \in skus THEN <<>> ELSE <<Head(cs)>>)
         \o WithoutSkus(Tail(cs), skus)

\* The share computed without the fallback pool and without the guard.
CoverageShareUnguarded(used, excludedAmount, budget) ==
  IF used >= used + excludedAmount /\ used + excludedAmount # 0
  THEN [num |-> 1, den |-> 1]
  ELSE [num |-> used, den |-> used + excludedAmount]

\* const totalPool = used + excludedAmount || budget;
\* const coverageShare = totalPool > 0 ? Math.min(1, used / totalPool) : 0;
CoverageShare(used, excludedAmount, budget) ==
  LET totalPool == IF used + excludedAmount # 0 THEN used + excludedAmount ELSE budget
  IN  IF totalPool > 0
      THEN (IF used >= totalPool THEN [num |-> 1, den |-> 1]
            ELSE [num |-> used, den |-> totalPool])
      ELSE [num |-> 0, den |-> 1]

\* the statistics and the returned plan, from the sorted candidates
PlanOf(candidates, budget, coverageDays) ==
  LET filled == GreedyFill(candidates, budget)
      used == filled.used
      picks == [i \in 1..Len(filled.picked) |-> Pick(filled.picked[i])]
      pickedSkus == {picks[i].sku : i \in 1..Len(picks)}
      excludedAmount == SumSpend(WithoutSkus(candidates, pickedSkus))
      excludedCount == Max(Len(candidates) - Len(picks), 0)
      coverageShare == CoverageShare(used, excludedAmount, budget)
  IN  [budget |-> budget, coverageDays |-> coverageDays, usedAmount |-> used,
       excludedAmount |-> excludedAmount, coverageShare |-> coverageShare,
       picks |-> picks,
       excludedValue |-> formatCurrency(IF excludedAmount < 0 THEN 0 - excludedAmount
                                        ELSE excludedAmount),
       excludedCount |-> excludedCount]

buildBudgetPlan(rows) == PlanOf(Candidates(rows), DefaultBudget, TARGET_COVERAGE)

buildBudgetPlanFromRows(rows, budget, targetCoverage) ==
  PlanOf(Candidates(rows), budget, targetCoverage)

\* runBudgetPlanner's candidates.forEach: the skus picked, in order
RECURSIVE PlannerFill(_, _, _, _)
PlannerFill(candidates, budget, k, acc) ==
  IF k > Len(candidates) THEN acc
  ELSE LET c == candidates[k]
       IN  IF c.spend = 0 THEN PlannerFill(candidates, budget, k + 1, acc)
           ELSE IF Admits(acc.used, c.spend, budget, Len(acc.picked))
                THEN PlannerFill(candidates, budget, k + 1,
                                 [used |-> acc.used + c.spend,
                                  picked |-> Append(acc.picked, c.row.sku)])
                ELSE PlannerFill(candidates, budget, k + 1, acc)

\* runBudgetPlanner of the replenishment page, on rows whose unitCost is
\* metric.unitCost ?? 0: the skus handed to setSelectedSkus
runBudgetPlanner(rows, budget) ==
  LET cost(row) == IF row.unitCost = Absent THEN 0 ELSE row.unitCost[1]
      scored(row) ==
        [row |-> row, spend |-> row.recommendedQty * cost(row),
         score |-> [num |-> RiskScore(row).num
                              * (row.avgDailySales * Max(cost(row), 100) + 100),
                    den |-> RiskScore(row).den]]
      kept == SelectSeq(rows, LAMBDA row : row.recommendedQty > 0)
      candidates == SortByScore([i \in 1..Len(kept) |-> scored(kept[i])])
  IN  PlannerFill(candidates, budget, 1, [used |-> 0, picked |-> <<>>]).picked

\* the plan variable: the allocator's input, then its input and its result
\* (picked: the candidates the fill admitted)
NoPlan ==
  [stage |-> "off", rows |-> <<>>, budget |-> 0, by |-> "none",
   picked |-> <<>>, result |-> PlanOf(<<>>, 0, 0), selected |-> <<>>]

InitPlan ==
  /\ now = 0
  /\ store = {}
  /\ syncLog = {}
  /\ others = 0
  /\ pc = [p \in Procs |-> "idle"]
  /\ loc = [p \in Procs |-> NoLocals]
  /\ hist = [p \in Procs |-> NoHistory]
  /\ forecast = NoForecast
  /\ paging = NoPaging
  /\ \E rows \in RowLists, budget \in PlanBudgets :
       plan = [NoPlan EXCEPT !.stage = "input", !.rows = rows, !.budget = budget]

\* getReplenishmentData / getDashboardData: buildBudgetPlan(shortageCandidates)
BuildBudgetPlan ==
  /\ plan.stage = "input"
  /\ plan' = [plan EXCEPT !.stage = "done", !.by = "buildBudgetPlan",
                          !.budget = DefaultBudget,
                          !.picked = GreedyFill(Candidates(plan.rows), DefaultBudget).picked,
                          !.result = buildBudgetPlan(plan.rows)]
  /\ UNCHANGED <<now, store, syncLog, others, pc, loc, hist, forecast, paging>>

\* the dashboard's live plan: buildBudgetPlanFromRows(pool, budget, targetCoverage)
BuildBudgetPlanFromRows ==
  /\ plan.stage = "input"
  /\ plan' = [plan EXCEPT !.stage = "done", !.by = "buildBudgetPlanFromRows",
                          !.picked = GreedyFill(Candidates(plan.rows), plan.budget).picked,
                          !.result = buildBudgetPlanFromRows(plan.rows, plan.budget,
                                                             TARGET_COVERAGE)]
  /\ UNCHANGED <<now, store, syncLog, others, pc, loc, hist, forecast, paging>>

\* the replenishment page's planner button; its budget starts as the plan's
\* budget and can be edited
RunBudgetPlanner ==
  /\ plan.stage = "input"
  /\ \E budget \in {plan.budget, DefaultBudget} :
       plan' = [plan EXCEPT !.stage = "selected", !.by = "runBudgetPlanner",
                            !.budget = budget,
                            !.selected = runBudgetPlanner(plan.rows, budget)]
  /\ UNCHANGED <<now, store, syncLog, others, pc, loc, hist, forecast, paging>>

NextPlan ==
  \/ BuildBudgetPlan
  \/ BuildBudgetPlanFromRows
  \/ RunBudgetPlanner

SpecPlan == InitPlan /\ [][NextPlan]_vars

InitForecast ==
  /\ now = 0
  /\ store = {}
  /\ syncLog = {}
  /\ others = 0
  /\ pc = [p \in Procs |-> "idle"]
  /\ loc = [p \in Procs |-> NoLocals]
  /\ hist = [p \in Procs |-> NoHistory]
  /\ plan = NoPlan
  /\ paging = NoPaging
  /\ \E variants \in VariantLists, settings \in LeadAndSafety,
        minDailySales \in MinDailySales, thresholds \in OverstockThresholds :
       forecast = [NoForecast EXCEPT !.stage = "input", !.variants = variants,
                                     !.settings = settings,
                                     !.minDailySales = minDailySales,
                                     !.thresholds = thresholds]

\* getDashboardData: buildRowsForTimeframe(variants, timeframe, targetCoverageDays)
BuildRowsForTimeframe ==
  /\ forecast.stage = "input"
  /\ \E timeframe \in Timeframes :
       forecast' = [forecast EXCEPT
                      !.stage = "rows", !.timeframe = timeframe,
                      !.rows = buildRowsForTimeframe(forecast.variants, timeframe,
                                                     TargetCoverageDays(forecast.settings),
                                                     forecast.minDailySales)]
  /\ UNCHANGED <<now, store, syncLog, others, pc, loc, hist, plan, paging>>

\* getOverstockData(admin, shopDomain, thresholds)
GetOverstockData ==
  /\ forecast.stage = "input"
  /\ LET payload == getOverstockData(forecast.variants, forecast.thresholds,
                                     forecast.minDailySales)
     IN  forecast' = [forecast EXCEPT !.stage = "overstock", !.rows = payload.rows,
                                      !.summary = payload.summary]
  /\ UNCHANGED <<now, store, syncLog, others, pc, loc, hist, plan, paging>>

\* getDashboardData: buildTimeframe(rowsByTimeframe[timeframe], timeframe,
\* shortageThreshold, overstockThreshold)
BuildTimeframe ==
  /\ forecast.stage = "rows"
  /\ \E shortageThreshold \in ShortageThresholds :
       LET built == buildTimeframe(forecast.rows, forecast.timeframe, shortageThreshold,
                                   forecast.thresholds.overstockThresholdDays)
       IN  forecast' = [forecast EXCEPT !.stage = "timeframe",
                                        !.shortageThreshold = shortageThreshold,
                                        !.shortage = built.shortage,
                                        !.overstock = built.overstock]
  /\ UNCHANGED <<now, store, syncLog, others, pc, loc, hist, plan, paging>>

NextForecast ==
  \/ BuildRowsForTimeframe
  \/ BuildTimeframe
  \/ GetOverstockData

SpecForecast == InitForecast /\ [][NextForecast]_vars

InitPaginate ==
  /\ now = 0
  /\ store = {}
  /\ syncLog = {}
  /\ others = 0
  /\ pc = [p \in Procs |-> "idle"]
  /\ loc = [p \in Procs |-> NoLocals]
  /\ hist = [p \in Procs |-> NoHistory]
  /\ plan = NoPlan
  /\ forecast = NoForecast
  /\ \E source \in PageSources, limitPages \in PageLimits :
       paging = [NoPaging EXCEPT !.stage = "input", !.source = source,
                                 !.limitPages = limitPages]

\* paginate(admin, shopDomain, query, path, variables, limitPages)
Paginate ==
  /\ paging.stage = "input"
  /\ LET run == paginate(paging.source, paging.limitPages)
     IN  \E oks \in [1..Len(run.logs) -> BOOLEAN] :
           /\ syncLog' = LogAll(syncLog, "p1", Shop, run.logs, oks, 1)
           /\ paging' = [paging EXCEPT !.stage = "done", !.run = run, !.oks = oks]
  /\ UNCHANGED <<now, store, others, pc, loc, hist, plan, forecast>>

NextPaginate ==
  \/ Paginate

SpecPaginate == InitPaginate /\ [][NextPaginate]_vars

(***************************************************************************)
(* The Sync Orchestrator's initial state and steps.                         *)
(***************************************************************************)
\* The Metric Store as earlier syncs may have left it: rows of the other
\* tenant, and for the shop nothing, one variant, or two variants, written
\* by a sync at time 0.
EarlierMerges ==
  { <<>>,
    MergeStreams(MapInventory(<<Node1>>), <<>>),
    MergeStreams(MapInventory(<<Node1, Node2>>), MapOrders(<<Order1>>)) }

InitStores ==
  { saveVariantMetrics(
      saveVariantMetrics({}, OtherShop, MergeStreams(MapInventory(<<Node1>>), <<>>), 0, TRUE),
      Shop, merged, 0, TRUE) : merged \in EarlierMerges }

Init ==
  /\ now = 0
  /\ store \in InitStores
  /\ syncLog = {}
  /\ others = 0
  /\ pc = [p \in Procs |-> "idle"]
  /\ loc = [p \in Procs |-> NoLocals]
  /\ hist = [p \in Procs |-> NoHistory]
  /\ plan = NoPlan
  /\ forecast = NoForecast
  /\ paging = NoPaging

CountFalse(oks) == Cardinality({i \in DOMAIN oks : ~oks[i]})
CountTrue(oks) == Cardinality({i \in DOMAIN oks : oks[i]})

\* a database or log-sink write succeeds or fails
Outcomes == BOOLEAN

\* where control goes when getVariantMetrics returns or raises: back to the
\* caller, or into performSync's try / catch
AfterReturn(p) == IF loc[p].op = "sync" THEN "ps_ok" ELSE "returned"
AfterRaise(p) == IF loc[p].op = "sync" THEN "ps_fail" ELSE "raised"

\* a loader or action calls getVariantMetrics(admin, shop)
StartGetVariantMetrics(p) ==
  /\ pc[p] = "idle"
  /\ loc' = [loc EXCEPT ![p] = [NoLocals EXCEPT !.op = "gvm", !.shop = Shop]]
  /\ pc' = [pc EXCEPT ![p] = "fresh"]
  /\ UNCHANGED <<now, store, syncLog, others, hist, plan, forecast, paging>>

\* line 58-61: the freshness-filtered read and the cache hit
ReadFresh(p) ==
  /\ pc[p] = "fresh"
  /\ \E dbOk \in Outcomes :
       /\ IF ~dbOk
          THEN /\ pc' = [pc EXCEPT ![p] = AfterRaise(p)]
               /\ hist' = [hist EXCEPT ![p].gvmRaised = TRUE, ![p].raisedBy = "store-read"]
               /\ loc' = loc
          ELSE \E rows \in OrderedDesc(findMany(store, loc[p].shop, now, Some(CACHE_MAX_MINUTES))) :
                 LET freshCached == RowsToMetrics(rows)
                     seen == [hist[p] EXCEPT
                                !.freshRead = TRUE,
                                !.hadFresh = \E r \in store :
                                               /\ r.shopDomain = loc[p].shop
                                               /\ now - r.lastCalculated <= CACHE_MAX_MINUTES]
                 IN  IF Len(freshCached) > 0
                     THEN /\ pc' = [pc EXCEPT ![p] = AfterReturn(p)]
                          /\ loc' = [loc EXCEPT ![p].result = freshCached]
                          /\ hist' = [hist EXCEPT ![p] =
                                        [seen EXCEPT !.tier = "fresh",
                                                     !.inWindow = \A i \in 1..Len(rows) :
                                                        now - rows[i].lastCalculated <= CACHE_MAX_MINUTES]]
                     ELSE /\ pc' = [pc EXCEPT ![p] = "fetch"]
                          /\ loc' = [loc EXCEPT ![p].inv = "pending", ![p].ord = "pending"]
                          /\ hist' = [hist EXCEPT ![p] = seen]
  /\ UNCHANGED <<now, store, syncLog, others, plan, forecast, paging>>

\* line 65 / 111-148: fetchVariantInventory, one branch of the Promise.all.
\* When it throws while the other branch is still awaited, Promise.all rejects
\* and control enters the catch; the other branch runs on, and what it
\* resolves to is dropped.
FetchVariantInventory(p) ==
  /\ loc[p].inv = "pending"
  /\ \E source \in InventorySources :
       LET run == paginate(source, 10)
       IN  \E oks \in [1..Len(run.logs) -> BOOLEAN] :
             /\ syncLog' = LogAll(syncLog, p, loc[p].shop, run.logs, oks, 1)
             /\ hist' = [hist EXCEPT
                           ![p].appended = @ + CountTrue(oks),
                           ![p].sinkFailed = @ \/ (CountFalse(oks) > 0),
                           ![p].requested = @ \/ (Len(run.sent) > 0)]
             /\ IF run.threw
                THEN /\ loc' = [loc EXCEPT ![p].inv = "fail"]
                     /\ pc' = [pc EXCEPT ![p] = IF pc[p] = "fetch" THEN "catch" ELSE @]
                ELSE /\ loc' = [loc EXCEPT ![p].inv = "ok",
                                           ![p].inventory = IF pc[p] = "fetch"
                                                            THEN MapInventory(run.records)
                                                            ELSE <<>>]
                     /\ pc' = pc
  /\ UNCHANGED <<now, store, others, plan, forecast, paging>>

\* line 66 / 150-224: fetchOrderSales, the other branch of the Promise.all
FetchOrderSales(p) ==
  /\ loc[p].ord = "pending"
  /\ \E source \in OrderSources :
       LET run == paginate(source, 5)
       IN  \E oks \in [1..Len(run.logs) -> BOOLEAN] :
             /\ syncLog' = LogAll(syncLog, p, loc[p].shop, run.logs, oks, 1)
             /\ hist' = [hist EXCEPT
                           ![p].appended = @ + CountTrue(oks),
                           ![p].sinkFailed = @ \/ (CountFalse(oks) > 0),
                           ![p].requested = @ \/ (Len(run.sent) > 0)]
             /\ IF run.threw
                THEN /\ loc' = [loc EXCEPT ![p].ord = "fail"]
                     /\ pc' = [pc EXCEPT ![p] = IF pc[p] = "fetch" THEN "catch" ELSE @]
                ELSE /\ loc' = [loc EXCEPT ![p].ord = "ok",
                                           ![p].sales = IF pc[p] = "fetch"
                                                        THEN MapOrders(run.records)
                                                        ELSE <<>>]
                     /\ pc' = pc
  /\ UNCHANGED <<now, store, others, plan, forecast, paging>>

\* rows with their timestamp blanked: the Metric Store "apart from lastCalculated"
Unstamped(rows) == {[r EXCEPT !.lastCalculated = 0] : r \in rows}

\* A Promise.all that resolves with its first branch.
EitherResolved(p) == loc[p].inv = "ok" \/ loc[p].ord = "ok"

\* line 63-66: await Promise.all([...]) resolves when both branches have
BothResolved(p) == loc[p].inv = "ok" /\ loc[p].ord = "ok"

\* line 69-89: both branches resolved: merge, and persist a non-empty merge
MergeAndSave(p) ==
  /\ pc[p] = "fetch"
  /\ BothResolved(p)
  /\ LET variants == MergeStreams(loc[p].inventory, loc[p].sales)
     IN  IF Len(variants) > 0
         THEN \E dbOk \in Outcomes :
                /\ store' = saveVariantMetrics(store, loc[p].shop, variants, now, dbOk)
                /\ loc' = [loc EXCEPT ![p].variants = variants, ![p].inventory = <<>>,
                                        ![p].sales = <<>>]
                /\ pc' = [pc EXCEPT ![p] = IF dbOk THEN "logok" ELSE "catch"]
                /\ hist' = [hist EXCEPT
                              ![p].merged = TRUE,
                              ![p].live = IF dbOk THEN "ok" ELSE "threw",
                              ![p].writes = IF dbOk THEN @ + 1 ELSE @,
                              ![p].resaved =
                                 /\ dbOk
                                 /\ Unstamped({r \in store : r.shopDomain = loc[p].shop})
                                      = {MetricRow(loc[p].shop, variants[i], 0) :
                                           i \in 1..Len(variants)}]
         ELSE /\ store' = store
              /\ loc' = [loc EXCEPT ![p].variants = variants, ![p].inventory = <<>>,
                                        ![p].sales = <<>>]
              /\ pc' = [pc EXCEPT ![p] = "any"]
              /\ hist' = [hist EXCEPT ![p].merged = TRUE, ![p].live = "empty"]
  /\ UNCHANGED <<now, syncLog, others, plan, forecast, paging>>

\* line 90-91: log success and return the merged set
LogSynced(p) ==
  /\ pc[p] = "logok"
  /\ \E sinkOk \in Outcomes :
       /\ syncLog' = logEvent(syncLog, p, loc[p].shop, "sync", "success",
                              "Variants synced", sinkOk)
       /\ hist' = [hist EXCEPT ![p].appended = IF sinkOk THEN @ + 1 ELSE @,
                               ![p].sinkFailed = @ \/ ~sinkOk,
                               ![p].tier = "live"]
  /\ loc' = [loc EXCEPT ![p].result = loc[p].variants]
  /\ pc' = [pc EXCEPT ![p] = AfterReturn(p)]
  /\ UNCHANGED <<now, store, others, plan, forecast, paging>>

\* line 93-100: the catch of the live attempt
CatchLoadFailure(p) ==
  /\ pc[p] = "catch"
  /\ \E sinkOk \in Outcomes :
       /\ syncLog' = logEvent(syncLog, p, loc[p].shop, "sync", "failure",
                              "Failed to load Shopify data", sinkOk)
       /\ hist' = [hist EXCEPT ![p].appended = IF sinkOk THEN @ + 1 ELSE @,
                               ![p].sinkFailed = @ \/ ~sinkOk,
                               ![p].live = "threw"]
  /\ pc' = [pc EXCEPT ![p] = "any"]
  /\ UNCHANGED <<now, store, others, loc, plan, forecast, paging>>

\* line 102-105: the unfiltered read and the stale fallback
ReadAny(p) ==
  /\ pc[p] = "any"
  /\ \E dbOk \in Outcomes :
       /\ IF ~dbOk
          THEN /\ pc' = [pc EXCEPT ![p] = AfterRaise(p)]
               /\ hist' = [hist EXCEPT ![p].gvmRaised = TRUE, ![p].raisedBy = "store-read"]
               /\ loc' = loc
          ELSE \E rows \in OrderedDesc(findMany(store, loc[p].shop, now, Absent)) :
                 LET anyCached == RowsToMetrics(rows)
                     hadAny == \E r \in store : r.shopDomain = loc[p].shop
                 IN  IF Len(anyCached) > 0
                     THEN /\ pc' = [pc EXCEPT ![p] = AfterReturn(p)]
                          /\ loc' = [loc EXCEPT ![p].result = anyCached]
                          /\ hist' = [hist EXCEPT ![p].anyRead = "some",
                                                  ![p].hadAny = hadAny,
                                                  ![p].tier = "stale",
                                                  ![p].inWindow = \A i \in 1..Len(rows) :
                                                     now - rows[i].lastCalculated <= CACHE_MAX_MINUTES]
                     ELSE /\ pc' = [pc EXCEPT ![p] = "sample"]
                          /\ loc' = loc
                          /\ hist' = [hist EXCEPT ![p].anyRead = "none",
                                                  ![p].hadAny = hadAny]
  /\ UNCHANGED <<now, store, syncLog, others, plan, forecast, paging>>

\* line 107-108: log the fallback and return the synthetic baseline
FallbackToSample(p) ==
  /\ pc[p] = "sample"
  /\ \E sinkOk \in Outcomes :
       /\ syncLog' = logEvent(syncLog, p, loc[p].shop, "sync", "failure",
                              "Fallback to sample metrics", sinkOk)
       /\ hist' = [hist EXCEPT ![p].appended = IF sinkOk THEN @ + 1 ELSE @,
                               ![p].sinkFailed = @ \/ ~sinkOk,
                               ![p].tier = "synthetic"]
  /\ loc' = [loc EXCEPT ![p].result = getSampleVariantMetrics]
  /\ pc' = [pc EXCEPT ![p] = AfterReturn(p)]
  /\ UNCHANGED <<now, store, others, plan, forecast, paging>>

(***************************************************************************)
(* logSyncEvent, requestSync and performSync (lines 329-373).              *)
(***************************************************************************)
SyncScopes == {"inventory", "digest"}

LogSyncMessage(scope, status) ==
  IF scope = "inventory"
  THEN (IF status = "success" THEN "inventory ok" ELSE "inventory failed")
  ELSE (IF status = "success" THEN "digest ok" ELSE "digest failed")

logSyncEvent(log, p, shop, scope, status, sinkOk) ==
  logEvent(log, p, shop, IF scope = "digest" THEN "digest" ELSE "sync", status,
           LogSyncMessage(scope, status), sinkOk)

LogSyncEvent(p) ==
  /\ pc[p] = "idle"
  /\ \E scope \in SyncScopes, status \in {"success", "failure"}, sinkOk \in Outcomes :
       /\ syncLog' = logSyncEvent(syncLog, p, Shop, scope, status, sinkOk)
       /\ hist' = [hist EXCEPT ![p] = [NoHistory EXCEPT
                                         !.appended = IF sinkOk THEN 1 ELSE 0,
                                         !.sinkFailed = ~sinkOk]]
  /\ loc' = [loc EXCEPT ![p] = [NoLocals EXCEPT !.op = "logsync", !.shop = Shop]]
  /\ pc' = [pc EXCEPT ![p] = "returned"]
  /\ UNCHANGED <<now, store, others, plan, forecast, paging>>

\* requestSync: prisma.syncLog.create of the pending entry, not guarded
RequestSync(p) ==
  /\ pc[p] = "idle"
  /\ \E sinkOk \in Outcomes :
       /\ IF sinkOk
          THEN /\ syncLog' = syncLog \cup
                    {LogEntry(NewId(syncLog, p), Shop, "inventory", "pending", "queued")}
               /\ loc' = [loc EXCEPT ![p] = [NoLocals EXCEPT !.op = "sync", !.shop = Shop,
                                                             !.jobId = NewId(syncLog, p)]]
               /\ hist' = [hist EXCEPT ![p] = [NoHistory EXCEPT !.appended = 1]]
               /\ pc' = [pc EXCEPT ![p] = "queued"]
          ELSE /\ syncLog' = syncLog
               /\ loc' = [loc EXCEPT ![p] = [NoLocals EXCEPT !.op = "sync", !.shop = Shop]]
               /\ hist' = [hist EXCEPT ![p] = [NoHistory EXCEPT !.sinkFailed = TRUE,
                                                                !.raisedBy = "log-sink"]]
               /\ pc' = [pc EXCEPT ![p] = "raised"]
  /\ UNCHANGED <<now, store, others, plan, forecast, paging>>

\* performSync(admin, shop, jobId): enters the try and calls getVariantMetrics
PerformSync(p) ==
  /\ pc[p] = "queued"
  /\ pc' = [pc EXCEPT ![p] = "fresh"]
  /\ loc' = [loc EXCEPT ![p].attempt = 1]
  /\ UNCHANGED <<now, store, syncLog, others, hist, plan, forecast, paging>>

\* performSync(admin, shop, jobId) called once more with the id of the same
\* job, after the earlier call has returned or raised
PerformSyncAgain(p) ==
  /\ pc[p] \in {"returned", "raised"}
  /\ loc[p].op = "sync"
  /\ loc[p].jobId # Absent
  /\ loc[p].attempt < MaxAttempts
  /\ loc[p].inv # "pending"
  /\ loc[p].ord # "pending"
  /\ pc' = [pc EXCEPT ![p] = "fresh"]
  /\ loc' = [loc EXCEPT ![p] = [NoLocals EXCEPT !.op = "sync", !.shop = loc[p].shop,
                                                !.jobId = loc[p].jobId,
                                                !.attempt = loc[p].attempt + 1]]
  /\ hist' = [hist EXCEPT ![p] = NoHistory]
  /\ UNCHANGED <<now, store, syncLog, others, plan, forecast, paging>>

\* prisma.syncLog.update({ where: { id: jobId }, data: { status, message } })
UpdateJob(log, jobId, status, message) ==
  {IF e.id = jobId THEN [e EXCEPT !.status = status, !.message = message] ELSE e :
     e \in log}

\* line 359-362: getVariantMetrics returned; the update is inside the try, so
\* when it fails control enters the catch
CompleteJob(p) ==
  /\ pc[p] = "ps_ok"
  /\ \E sinkOk \in Outcomes :
       /\ IF sinkOk
          THEN /\ syncLog' = UpdateJob(syncLog, loc[p].jobId, "success", "sync completed")
               /\ pc' = [pc EXCEPT ![p] = "returned"]
               /\ hist' = hist
          ELSE /\ syncLog' = syncLog
               /\ pc' = [pc EXCEPT ![p] = "ps_fail"]
               /\ hist' = [hist EXCEPT ![p].sinkFailed = TRUE, ![p].raisedBy = "log-sink"]
  /\ UNCHANGED <<now, store, others, loc, plan, forecast, paging>>

\* line 363-372: the catch: mark the job failed, then rethrow
FailJob(p) ==
  /\ pc[p] = "ps_fail"
  /\ \E sinkOk \in Outcomes :
       /\ IF sinkOk
          THEN /\ syncLog' = UpdateJob(syncLog, loc[p].jobId, "failure", "error message")
               /\ hist' = hist
          ELSE /\ syncLog' = syncLog
               /\ hist' = [hist EXCEPT ![p].sinkFailed = TRUE]
  /\ pc' = [pc EXCEPT ![p] = "raised"]
  /\ UNCHANGED <<now, store, others, loc, plan, forecast, paging>>

(***************************************************************************)
(* The environment.                                                        *)
(***************************************************************************)
Tick ==
  /\ now + TickMinutes <= MaxTicks * TickMinutes
  /\ now' = now + TickMinutes
  /\ UNCHANGED <<store, syncLog, others, pc, loc, hist, plan, forecast, paging>>

\* The merged sets a concurrent request's live attempt may arrive at.
ConcurrentMerges ==
  { MergeStreams(MapInventory(<<Node1>>), <<>>),
    MergeStreams(MapInventory(<<Node1, Node2>>), MapOrders(<<Order1, Order2>>)) }

\* line 88-91 in another request for the same shop: its live attempt persists
\* a non-empty merged set in one transaction and logs the success. Its reads
\* and its result stay with that request; only the two tables are shared.
ConcurrentSync ==
  /\ others < MaxOtherSyncs
  /\ others' = others + 1
  /\ \E variants \in ConcurrentMerges, sinkOk \in Outcomes :
       /\ store' = saveVariantMetrics(store, Shop, variants, now, TRUE)
       /\ syncLog' = logEvent(syncLog, "other", Shop, "sync", "success",
                              "Variants synced", sinkOk)
  /\ UNCHANGED <<now, pc, loc, hist, plan, forecast, paging>>

\* the caller has taken the result (or the error) and the request is over
Finish(p) ==
  /\ pc[p] \in {"returned", "raised"}
  /\ loc[p].inv # "pending"
  /\ loc[p].ord # "pending"
  /\ pc' = [pc EXCEPT ![p] = "finished"]
  /\ loc' = [loc EXCEPT ![p] = NoLocals]
  /\ hist' = [hist EXCEPT ![p] = NoHistory]
  /\ UNCHANGED <<now, store, syncLog, others, plan, forecast, paging>>

Next ==
  \/ \E p \in Procs : StartGetVariantMetrics(p)
  \/ \E p \in Procs : ReadFresh(p)
  \/ \E p \in Procs : FetchVariantInventory(p)
  \/ \E p \in Procs : FetchOrderSales(p)
  \/ \E p \in Procs : MergeAndSave(p)
  \/ \E p \in Procs : LogSynced(p)
  \/ \E p \in Procs : CatchLoadFailure(p)
  \/ \E p \in Procs : ReadAny(p)
  \/ \E p \in Procs : FallbackToSample(p)
  \/ \E p \in Procs : LogSyncEvent(p)
  \/ \E p \in Procs : RequestSync(p)
  \/ \E p \in Procs : PerformSync(p)
  \/ \E p \in Procs : CompleteJob(p)
  \/ \E p \in Procs : FailJob(p)
  \/ \E p \in Procs : Finish(p)
  \/ ConcurrentSync
  \/ Tick

Spec == Init /\ [][Next]_vars

\* A job of the Sync Orchestrator on its own: requestSync, then performSync
\* with the job's id, up to MaxAttempts times.
InitJobs ==
  /\ now = 0
  /\ store = {}
  /\ syncLog = {}
  /\ others = 0
  /\ pc = [p \in Procs |-> "idle"]
  /\ loc = [p \in Procs |-> NoLocals]
  /\ hist = [p \in Procs |-> NoHistory]
  /\ plan = NoPlan
  /\ forecast = NoForecast
  /\ paging = NoPaging

NextJobs ==
  \/ \E p \in Procs : RequestSync(p)
  \/ \E p \in Procs : PerformSync(p)
  \/ \E p \in Procs : PerformSyncAgain(p)
  \/ \E p \in Procs : ReadFresh(p)
  \/ \E p \in Procs : FetchVariantInventory(p)
  \/ \E p \in Procs : FetchOrderSales(p)
  \/ \E p \in Procs : MergeAndSave(p)
  \/ \E p \in Procs : LogSynced(p)
  \/ \E p \in Procs : CatchLoadFailure(p)
  \/ \E p \in Procs : ReadAny(p)
  \/ \E p \in Procs : FallbackToSample(p)
  \/ \E p \in Procs : CompleteJob(p)
  \/ \E p \in Procs : FailJob(p)
  \/ \E p \in Procs : Finish(p)

SpecJobs == InitJobs /\ [][NextJobs]_vars

(***************************************************************************)
(* Properties of the Sync Orchestrator.                                    *)
(***************************************************************************)
Returned(p) == hist[p].tier # "none"

\* C1: every call of getVariantMetrics returns a non-empty list and never
\* raises to its caller, whatever fails (source, store read, store write, log
\* sink).  The two store reads (line 58, line 102) are outside the try, so a
\* failed read raises: the formula is violated.
C1_AlwaysReturnsNonEmpty ==
  \A p \in Procs :
    /\ ~hist[p].gvmRaised
    /\ Returned(p) => Len(loc[p].result) > 0

\* C2: the fallback chain is followed in strict order: a request goes to the
\* source only if the store held no row of the shop inside the freshness window
\* when it was read; stale rows are served only after the live attempt threw or
\* merged to the empty set; the synthetic baseline is served only if the store
\* held no row of the shop at the unfiltered read; no later tier is served
\* while an earlier one had something to serve.
C2_FallbackOrder ==
  \A p \in Procs :
    LET h == hist[p]
    IN  /\ (h.requested \/ h.live # "none") => (h.freshRead /\ ~h.hadFresh)
        /\ h.tier = "fresh" => (h.hadFresh /\ ~h.requested /\ h.anyRead = "unread")
        /\ h.tier = "live" => (~h.hadFresh /\ h.live = "ok" /\ h.anyRead = "unread")
        /\ h.tier = "stale" =>
             (~h.hadFresh /\ h.live \in {"threw", "empty"} /\ h.hadAny)
        /\ h.tier = "synthetic" =>
             (~h.hadFresh /\ h.live \in {"threw", "empty"} /\ ~h.hadAny)
        /\ h.anyRead # "unread" => h.live \in {"threw", "empty"}

\* C2 witness: stale rows were served after the live attempt threw.
C2_StaleAfterFailedLive ==
  \E p \in Procs : hist[p].tier = "stale" /\ hist[p].live = "threw" /\ hist[p].requested

\* C3: every execution of getVariantMetrics appends exactly one SyncLogEntry,
\* whichever branch it takes (log-sink failures aside).  A fresh cache hit
\* appends none, a failed page appends one entry in executeGraphql and another
\* in the catch: the formula is violated.
C3_ExactlyOneEntry ==
  \A p \in Procs :
    (loc[p].op = "gvm" /\ Returned(p) /\ ~hist[p].sinkFailed) => hist[p].appended = 1

\* C4: when the store holds a row of the shop inside the freshness window at
\* the read, getVariantMetrics returns only rows inside the window, sends no
\* request to the source and commits nothing to the Metric Store.
C4_FreshHit ==
  \A p \in Procs :
    hist[p].hadFresh =>
      /\ hist[p].tier = "fresh"
      /\ Len(loc[p].result) > 0
      /\ hist[p].inWindow
      /\ ~hist[p].requested
      /\ loc[p].inv = "idle" /\ loc[p].ord = "idle"
      /\ hist[p].writes = 0

\* C4 witness: a fresh hit while the store also holds a row of the shop that
\* is outside the window.
C4_FreshHitBesideOldRow ==
  \E p \in Procs :
    /\ hist[p].tier = "fresh"
    /\ \E r \in store : r.shopDomain = Shop /\ now - r.lastCalculated > CACHE_MAX_MINUTES
    /\ \E r \in store : r.shopDomain = Shop /\ now - r.lastCalculated <= CACHE_MAX_MINUTES

\* C5: when the live attempt fails or merges to the empty set and the store
\* holds a row of the shop, getVariantMetrics returns the stored rows and logs
\* a success entry (with a stale note).  Line 103-105 return without logging,
\* so no success entry of the call exists: the formula is violated.
C5_StaleLogsSuccess ==
  \A p \in Procs :
    (hist[p].tier = "stale" /\ ~hist[p].sinkFailed) =>
      /\ Len(loc[p].result) > 0
      /\ \E e \in syncLog : e.id[1] = p /\ e.status = "success"

\* The values of NODE_ENV; getVariantMetrics does not read it.
NodeEnvs == {"development", "production"}

\* C6: the synthetic sample is returned only in development; in production
\* the call ends in an error instead.  The code returns it whatever NODE_ENV
\* is: the formula is violated.
C6_SampleOnlyInDevelopment ==
  \A env \in NodeEnvs :
    \A p \in Procs : hist[p].tier = "synthetic" => env = "development"

\* what the store is after all of variants have been written for the shop at t
FullyWritten(rows, shop, variants, t) ==
  {r \in rows : ~(r.shopDomain = shop /\ \E i \in 1..Len(variants) : variants[i].id = r.variantId)}
    \cup {MetricRow(shop, variants[i], t) : i \in 1..Len(variants)}

UniqueKey(rows) ==
  \A r1, r2 \in rows :
    (r1.shopDomain = r2.shopDomain /\ r1.variantId = r2.variantId) => r1 = r2

\* the merged sets a sync of the shop may persist
PersistedSets == ConcurrentMerges \cup (EarlierMerges \ {<<>>})

\* C8: repeated syncs are idempotent: the store holds one row per
\* (shop, variantId), and persisting a merged set a second and a third time
\* leaves the rows it had after the first time, apart from lastCalculated.
C8_Idempotent ==
  /\ UniqueKey(store)
  /\ \A variants \in PersistedSets :
       LET once == saveVariantMetrics(store, Shop, variants, now, TRUE)
           twice == saveVariantMetrics(once, Shop, variants, now + TickMinutes, TRUE)
           thrice == saveVariantMetrics(twice, Shop, variants, now + 2 * TickMinutes, TRUE)
       IN  /\ UniqueKey(twice)
           /\ Unstamped(twice) = Unstamped(once)
           /\ Cardinality(twice) = Cardinality(once)
           /\ Unstamped(thrice) = Unstamped(once)
           /\ Cardinality(thrice) = Cardinality(once)

\* C8 witness: a sync persisted, at a later time, the merged set the store
\* already held for the shop.
C8_Resaved ==
  \E p \in Procs : hist[p].resaved /\ now > 0

\* C9: a failure of the log sink never raises to the caller of
\* getVariantMetrics, logSyncEvent, requestSync or performSync.  requestSync
\* and performSync write the SyncLog with prisma.syncLog.create / update
\* directly, and a failed write raises: the formula is violated.
C9_LogFailureNeverRaises ==
  \A p \in Procs : hist[p].raisedBy # "log-sink"

(***************************************************************************)
(* Properties of the budget allocator, under SpecPlan.                     *)
(***************************************************************************)
\* C10 as stated: for every candidate set and every budget, usedAmount is the
\* sum of the spends of the picked candidates, and usedAmount <= budget or
\* the plan has exactly one pick.  With a negative budget and no candidate of
\* positive spend the plan has no pick and usedAmount = 0 > budget: the
\* formula is violated.
C10_AsStated ==
  plan.stage = "done" =>
    /\ plan.result.usedAmount = SumSpend(plan.picked)
    /\ \/ plan.result.usedAmount <= plan.result.budget
       \/ Len(plan.result.picks) = 1

\* C10, amended: usedAmount is the sum of the spends of the picked
\* candidates, and usedAmount <= budget, or the plan has exactly one pick (the
\* forced first pick), or the budget is negative and the plan has no pick.
C10_BudgetInvariant ==
  plan.stage = "done" =>
    /\ plan.result.usedAmount = SumSpend(plan.picked)
    /\ Len(plan.result.picks) = Len(plan.picked)
    /\ \/ plan.result.usedAmount <= plan.result.budget
       \/ Len(plan.result.picks) = 1
       \/ (plan.result.budget < 0 /\ Len(plan.result.picks) = 0)

\* C10 witness: a plan of two picks that leaves a candidate of positive spend
\* out because it does not fit the budget.
C10_TwoPicksOneLeftOut ==
  /\ plan.stage = "done"
  /\ Len(plan.result.picks) = 2
  /\ plan.result.excludedAmount > 0
  /\ plan.result.usedAmount + plan.result.excludedAmount > plan.result.budget

\* the state of the fill before the turn of the k-th candidate
BeforeTurn(candidates, budget, k) == GreedyFill(SubSeq(candidates, 1, k - 1), budget)

\* C11: walking the candidates in score order, a candidate of positive spend
\* is picked if and only if used + spend <= budget at its turn or no pick has
\* been made yet; so the plan is not empty when a row with recommendedQty > 0
\* and positive spend exists, and no candidate of zero or negative spend is
\* picked.
C11_GreedyFill ==
  plan.stage = "done" =>
    LET candidates == Candidates(plan.rows)
        budget == plan.result.budget
    IN  /\ \A k \in 1..Len(candidates) :
             LET before == BeforeTurn(candidates, budget, k)
                 after == BeforeTurn(candidates, budget, k + 1)
                 taken == after.picked # before.picked
             IN  /\ taken <=>
                       /\ candidates[k].spend > 0
                       /\ \/ before.used + candidates[k].spend <= budget
                          \/ Len(before.picked) = 0
                 /\ taken => after.picked = Append(before.picked, candidates[k])
        /\ plan.picked = BeforeTurn(candidates, budget, Len(candidates) + 1).picked
        /\ (\E i \in 1..Len(plan.rows) :
              /\ plan.rows[i].recommendedQty > 0
              /\ plan.rows[i].recommendedQty * UnitCostOf(plan.rows[i]) > 0)
             => Len(plan.result.picks) >= 1
        /\ \A i \in 1..Len(plan.picked) : plan.picked[i].spend > 0

\* C11 witness: the first candidate was picked although it alone exceeds the
\* budget, a later one of positive spend was refused, and a candidate of
\* negative spend was passed over.
C11_ForcedFirstPick ==
  /\ plan.stage = "done"
  /\ Len(plan.result.picks) = 1
  /\ plan.result.usedAmount > plan.result.budget
  /\ \E k \in 1..Len(Candidates(plan.rows)) :
       /\ Candidates(plan.rows)[k].spend > 0
       /\ Candidates(plan.rows)[k] # plan.picked[1]
  /\ \E k \in 1..Len(Candidates(plan.rows)) : Candidates(plan.rows)[k].spend < 0

\* the fraction share is the number num / den (den # 0): both are 0, both
\* are 1, or they are the same fraction term by term (no products, which
\* would leave the 32-bit integers of the checker)
IsRatio(share, num, den) ==
  \/ share.num = 0 /\ num = 0
  \/ share.num = share.den /\ num = den
  \/ share.num = num /\ share.den = den

C13_InsufficientSales ==
  forecast.stage = "rows" =>
    \A i \in 1..Len(forecast.rows) :
      SalesIn(forecast.variants[i], forecast.timeframe) < 10 =>
        /\ forecast.rows[i].avgDailySales = 0
        /\ forecast.rows[i].insufficientSales = TRUE
        /\ forecast.rows[i].recommendedQty = 0

\* Nine sales in the window beside a stock of five give no forecast, while a
\* variant of the same call with enough sales gets one.
C13_NineSalesNoForecast ==
  /\ forecast.stage = "rows"
  /\ \E i, j \in 1..Len(forecast.rows) :
       /\ SalesIn(forecast.variants[i], forecast.timeframe) = 9
       /\ forecast.variants[i].available > 0
       /\ forecast.rows[i].insufficientSales
       /\ forecast.rows[i].recommendedQty = 0
       /\ SalesIn(forecast.variants[j], forecast.timeframe) >= 10
       /\ ~forecast.rows[j].insufficientSales
       /\ forecast.rows[j].recommendedQty > 0


\* C14: the recommendedQty of a row is max(0, ceil(sales / windowDays *
\* targetCoverageDays - available)), taken from the unrounded average, with
\* targetCoverageDays = max(leadTimeDays + safetyDays, 30); it is a
\* non-negative integer, and 0 whenever avgDailySales is 0.
C14_RecommendedQty ==
  forecast.stage = "rows" =>
    \A i \in 1..Len(forecast.rows) :
      LET variant == forecast.variants[i]
          sales == SalesIn(variant, forecast.timeframe)
          days == DaysOf(forecast.timeframe)
          target == Max(forecast.settings.leadTime + forecast.settings.safetyDays, 30)
          qty == forecast.rows[i].recommendedQty
      IN  /\ qty \in Nat
          /\ forecast.rows[i].avgDailySales = 0 => qty = 0
          /\ sales >= 10 =>
               qty = Max(0, CeilDiv(sales * target - variant.available * days, days))


\* the unrounded daily average buildRowsForTimeframe hands to computeCoverage
AvgDailySalesRaw(variant, timeframe) ==
  IF SalesIn(variant, timeframe) >= MIN_SALES_FOR_FORECAST
  THEN [num |-> SalesIn(variant, timeframe), den |-> DaysOf(timeframe)]
  ELSE [num |-> 0, den |-> 1]

\* C15: computeCoverage returns 0 when available <= 0; for available > 0 it
\* returns a value between 0 and the cap (999 days), the quotient of
\* available by the daily sales floored at the minimum daily sales, rounded
\* to a tenth; the divisor is never zero and the cap is never exceeded.
C15_Coverage ==
  forecast.stage = "rows" =>
    \A i \in 1..Len(forecast.rows) :
      LET variant == forecast.variants[i]
          avg == AvgDailySalesRaw(variant, forecast.timeframe)
          floored == IF avg.num * forecast.minDailySales.den
                          >= forecast.minDailySales.num * avg.den
                     THEN avg ELSE forecast.minDailySales
          days == forecast.rows[i].daysOfStock
      IN  /\ variant.available <= 0 => days = 0
          /\ variant.available > 0 =>
               /\ floored.num > 0
               /\ days >= 0
               /\ days <= 999 * 10
               /\ days = Min(999 * 10,
                             (2 * 10 * variant.available * floored.den + floored.num)
                               \div (2 * floored.num))

\* A stock without sales is covered for the cap, beside an oversold variant
\* with sales that is covered for 0 days.
C15_CappedBesideOversold ==
  /\ forecast.stage = "rows"
  /\ \E i, j \in 1..Len(forecast.rows) :
       /\ forecast.variants[i].available > 0
       /\ SalesIn(forecast.variants[i], forecast.timeframe) = 0
       /\ forecast.rows[i].daysOfStock = 999 * 10
       /\ forecast.variants[j].available < 0
       /\ SalesIn(forecast.variants[j], forecast.timeframe) >= 10
       /\ forecast.rows[j].daysOfStock = 0


\* C16: getOverstockData classifies only the variants with available > 0: a
\* row is severe if its sales30d is 0 or its coverageDays reach
\* overstockThresholdDays, else mild if they reach
\* mildOverstockThresholdDays, else normal; a variant with available <= 0
\* is in no row and in no count of the summary.
C16_OverstockSeverity ==
  forecast.stage = "overstock" =>
    LET inStock == SelectSeq(forecast.variants, LAMBDA v : v.available > 0)
        rows == forecast.rows
        coverage(v) == computeCoverage(v.available, [num |-> v.sales.d30, den |-> 30],
                                       forecast.minDailySales)
        isSevere(v) == v.sales.d30 = 0
                         \/ coverage(v) >= forecast.thresholds.overstockThresholdDays * 10
        isMild(v) == ~isSevere(v)
                       /\ coverage(v) >= forecast.thresholds.mildOverstockThresholdDays * 10
    IN  /\ Len(rows) = Len(inStock)
        /\ \A k \in 1..Len(rows) :
             /\ rows[k].sku = inStock[k].sku
             /\ rows[k].available = inStock[k].available
             /\ rows[k].available > 0
             /\ rows[k].severity = "severe" <=> isSevere(inStock[k])
             /\ rows[k].severity = "mild" <=> isMild(inStock[k])
             /\ rows[k].severity = "normal" <=> ~isSevere(inStock[k]) /\ ~isMild(inStock[k])
        /\ forecast.summary.severeCount = Len(SelectSeq(inStock, isSevere))
        /\ forecast.summary.overstockCount
             = Len(SelectSeq(inStock, LAMBDA v :
                     coverage(v) >= forecast.thresholds.overstockThresholdDays * 10))

\* An oversold variant is left out beside a variant in stock that is mild.
C16_OversoldLeftOut ==
  /\ forecast.stage = "overstock"
  /\ Len(forecast.variants) = 2
  /\ \E i \in 1..2 : forecast.variants[i].available < 0
  /\ Len(forecast.rows) = 1
  /\ forecast.rows[1].severity = "mild"
  /\ forecast.summary.severeCount = 0


\* C17: the merged set holds exactly one entry for every variant id of the
\* inventory stream or of the sales stream and no other entry; an id absent
\* from the inventory stream gets available 0 and sku "Unknown SKU", an id
\* absent from the sales stream gets zero buckets, and the fields of the
\* stream that holds the id are copied unchanged.
C17_MergeIsUnion ==
  [][\A p \in Procs :
       (hist'[p].merged /\ ~hist[p].merged) =>
         LET inventory == loc[p].inventory
             sales == loc[p].sales
             variants == loc'[p].variants
             inventoryIds == {inventory[i].id : i \in 1..Len(inventory)}
             salesIds == {sales[i].id : i \in 1..Len(sales)}
         IN  /\ {variants[i].id : i \in 1..Len(variants)} = inventoryIds \cup salesIds
             /\ \A i, j \in 1..Len(variants) : variants[i].id = variants[j].id => i = j
             /\ \A i \in 1..Len(variants) :
                  /\ variants[i].id \notin inventoryIds =>
                       variants[i].available = 0 /\ variants[i].sku = "Unknown SKU"
                  /\ variants[i].id \in inventoryIds =>
                       \E k \in 1..Len(inventory) :
                         /\ inventory[k].id = variants[i].id
                         /\ inventory[k].sku = variants[i].sku
                         /\ inventory[k].name = variants[i].name
                         /\ inventory[k].variant = variants[i].variant
                         /\ inventory[k].available = variants[i].available
                         /\ inventory[k].unitCost = variants[i].unitCost
                  /\ variants[i].id \notin salesIds =>
                       variants[i].sales = [d30 |-> 0, d60 |-> 0, d90 |-> 0]
                  /\ variants[i].id \in salesIds =>
                       \E k \in 1..Len(sales) :
                         sales[k].id = variants[i].id /\ sales[k].buckets = variants[i].sales
    ]_vars

\* A merge of an inventory stream holding v1 alone with a sales stream
\* holding v2 alone: v1 with zero buckets, v2 with the placeholder fields.
C17_OneFromEachStream ==
  \E p \in Procs :
    /\ hist[p].merged
    /\ Len(loc[p].variants) = 2
    /\ \E i, j \in 1..2 :
         /\ loc[p].variants[i].id = "v1"
         /\ loc[p].variants[i].sku = "SKU-1"
         /\ loc[p].variants[i].available = 38
         /\ loc[p].variants[i].sales = [d30 |-> 0, d60 |-> 0, d90 |-> 0]
         /\ loc[p].variants[j].id = "v2"
         /\ loc[p].variants[j].sku = "Unknown SKU"
         /\ loc[p].variants[j].variant = ""
         /\ loc[p].variants[j].available = 0
         /\ loc[p].variants[j].sales.d30 > 0


\* C18: the inventory fetch and the orders fetch run concurrently, and the
\* merge and the persist happen only after both have completed: in every
\* interleaving, a sync one of whose fetches failed merges nothing and
\* writes nothing to the Metric Store.
C18_MergeOnlyAfterBoth ==
  /\ [](\A p \in Procs :
          /\ hist[p].merged => loc[p].inv = "ok" /\ loc[p].ord = "ok"
          /\ hist[p].writes > 0 => hist[p].merged
          /\ (loc[p].inv = "fail" \/ loc[p].ord = "fail") =>
               ~hist[p].merged /\ hist[p].writes = 0 /\ loc[p].variants = <<>>)
  /\ [][store' /= store =>
          \/ others' /= others
          \/ \E p \in Procs : /\ loc[p].inv = "ok" /\ loc[p].ord = "ok"
                              /\ hist'[p].merged /\ ~hist[p].merged]_vars

\* The orders fetch has failed and the inventory fetch has completed; the
\* request has gone on to its fallback without a merge or a write.
C18_OneFetchFailed ==
  \E p \in Procs :
    /\ loc[p].inv = "ok"
    /\ loc[p].ord = "fail"
    /\ hist[p].live = "threw"
    /\ hist[p].tier /= "none"
    /\ ~hist[p].merged
    /\ hist[p].writes = 0


\* C19: paginate ends after at most limitPages requests (10 by default, 5
\* for orders, 3 for locations); the requests are sent one after the other,
\* the first without a cursor and each next one with the end cursor of the
\* previous response; when the limit stops it while the source still
\* reports a next page, it logs a failure entry and returns the records it
\* has read instead of raising.
C19_PaginateBounded ==
  paging.stage = "done" =>
    LET run == paging.run
        source == paging.source
        sent == run.sent
        last == source[sent[Len(sent)]]
        stoppedByLimit == /\ Len(sent) = paging.limitPages
                          /\ last.kind = "data" /\ last.hasPath /\ last.hasNextPage
    IN  /\ Len(sent) <= paging.limitPages
        /\ Len(sent) >= 1
        /\ sent[1] = NullStr
        /\ \A k \in 2..Len(sent) : sent[k] = source[sent[k - 1]].endCursor
        /\ stoppedByLimit =>
             /\ ~run.threw
             /\ run.records = PagesRead(source, sent)
             /\ run.logs = <<"Pagination guard triggered">>
             /\ paging.oks[1] =>
                  \E e \in syncLog : /\ e.status = "failure"
                                     /\ e.message = "Pagination guard triggered"

\* Five requests with limitPages 5 to a source that always reports a next
\* page: five records returned and the guard entry written.
C19_StoppedAfterFive ==
  /\ paging.stage = "done"
  /\ paging.limitPages = 5
  /\ Len(paging.run.sent) = 5
  /\ paging.run.hasNextPage
  /\ ~paging.run.threw
  /\ Len(paging.run.records) = 5
  /\ \E e \in syncLog : e.status = "failure" /\ e.message = "Pagination guard triggered"


\* C20: a SyncLog entry is mutated at most once after its creation, and only
\* from pending to success or to failure: over any sequence of requestSync,
\* performSync and logEvent calls, an entry whose status is success or
\* failure is never updated again, and an entry created as success or
\* failure is never changed.
C20_FinishedEntryNeverUpdated ==
  [][\A e \in syncLog : e.status \in {"success", "failure"} => e \in syncLog']_vars


\* C21: the plan's excludedCount is the number of candidates that have a
\* positive spend and were not picked; a candidate skipped because its spend
\* is zero (unit cost unknown) is not counted as excluded.
C21_ExcludedCount ==
  plan.stage = "done" =>
    LET candidates == Candidates(plan.rows)
        positive == {k \in 1..Len(candidates) : candidates[k].spend > 0}
    IN  plan.result.excludedCount = Cardinality(positive) - Len(plan.picked)


\* C22: the plan's excludedAmount is the sum of the spends of the candidates
\* that were not picked, so that usedAmount + excludedAmount is the total
\* spend of the candidates (the rows with recommendedQty > 0), also when
\* several candidates carry the same sku.
C22_ExcludedAmount ==
  plan.stage = "done" =>
    plan.result.usedAmount + plan.result.excludedAmount = SumSpend(Candidates(plan.rows))


\* C23: a shorter runway ranks higher: of two candidates with equal
\* importance, the one with fewer coverage days (daysOfStock) has a score
\* greater than or equal to the other's; this includes zero coverage days,
\* whose riskScore is the constant 2.
C23_ShorterRunwayRanksHigher ==
  plan.stage = "done" =>
    LET candidates == Candidates(plan.rows)
    IN  \A i, j \in 1..Len(candidates) :
          ( /\ Importance(candidates[i].row, candidates[i].unitCost)
                 = Importance(candidates[j].row, candidates[j].unitCost)
            /\ candidates[i].row.daysOfStock < candidates[j].row.daysOfStock )
          => ~ScoreLess(candidates[i].score, candidates[j].score)


\* C24: the score of each candidate is riskScore x max(importance, 1), where
\* importance is salesValue when known, else sales x max(unitCost, 1), else
\* avgDailySales x 30 x max(unitCost, 1); the candidates are considered for
\* picking in non-increasing order of score.
C24_ScoreAndOrder ==
  plan.stage = "done" =>
    LET candidates == Candidates(plan.rows)
    IN  /\ \A k \in 1..Len(candidates) :
             LET row == candidates[k].row
                 cost == Max(candidates[k].unitCost, 100)
                 importance ==
                   IF row.salesValue # Absent THEN row.salesValue[1]
                   ELSE IF row.sales # Absent /\ row.sales[1] # 0 THEN row.sales[1] * cost
                        ELSE row.avgDailySales * 30 * cost
             IN  /\ candidates[k].score.num = RiskScore(row).num * Max(importance, 100)
                 /\ candidates[k].score.den = RiskScore(row).den
        /\ \A k \in 1..(Len(candidates) - 1) :
             ~ScoreLess(candidates[k].score, candidates[k + 1].score)


\* C25: for every row set and thresholds, the shortage list of buildTimeframe
\* holds only rows with coverageDays <= shortageThresholdDays or
\* recommendedQty >= 5, has at most 5 rows, is sorted by coverageDays
\* ascending, and no qualifying row left out of it has fewer coverage days
\* than a row in it.
C25_ShortageTopFive ==
  forecast.stage = "timeframe" =>
    LET shortage == forecast.shortage
        rows == forecast.rows
        qualifies(row) == \/ row.coverageDays <= forecast.shortageThreshold * 10
                          \/ row.recommendedQty >= 5
        count(seq, row) == Cardinality({k \in 1..Len(seq) : seq[k] = row})
    IN  /\ Len(shortage) <= 5
        /\ \A k \in 1..Len(shortage) :
             /\ qualifies(shortage[k])
             /\ count(shortage, shortage[k]) <= count(rows, shortage[k])
        /\ \A k \in 1..(Len(shortage) - 1) :
             shortage[k].coverageDays <= shortage[k + 1].coverageDays
        /\ \A i \in 1..Len(rows) :
             (qualifies(rows[i]) /\ count(shortage, rows[i]) < count(rows, rows[i])) =>
               /\ Len(shortage) = 5
               /\ \A k \in 1..5 : shortage[k].coverageDays <= rows[i].coverageDays

\* Nine rows of which more than five qualify: five are listed, and a
\* qualifying row with more coverage days than all of them is left out.
C25_SixthLeftOut ==
  /\ forecast.stage = "timeframe"
  /\ Len(forecast.rows) = 9
  /\ Len(forecast.shortage) = 5
  /\ forecast.shortage[1].coverageDays < forecast.shortage[5].coverageDays
  /\ \E i \in 1..9 :
       /\ forecast.rows[i].recommendedQty >= 5
       /\ forecast.rows[i].coverageDays > forecast.shortage[5].coverageDays


\* C30: a variant without forecastable demand (avgDailySales 0 because its
\* sales are below the forecast floor, hence recommendedQty 0) is never
\* listed in a timeframe's shortage top 5, whatever its available quantity,
\* available = 0 included.
C30_NoDemandNotListed ==
  forecast.stage = "timeframe" =>
    \A k \in 1..Len(forecast.shortage) :
      ~(forecast.shortage[k].insufficientSales /\ forecast.shortage[k].avgDailySales = 0)


\* C26: every list getVariantMetrics serves from the Metric Store (fresh
\* cache hit or stale fallback) is the variant set persisted by the most
\* recent successful sync of the shop: it never mixes rows written by
\* different syncs and never holds a variant that was absent from that sync,
\* also when two syncs of the shop run concurrently.
C26_ServesLatestSync ==
  [][\A p \in Procs :
       (hist[p].tier = "none" /\ hist'[p].tier \in {"fresh", "stale"}) =>
         LET mine == {r \in store : r.shopDomain = loc[p].shop}
             latest == {r \in mine : \A q \in mine : q.lastCalculated <= r.lastCalculated}
         IN  SeqToSet(loc'[p].result) = {RowToMetric(r) : r \in latest}]_vars


\* C27: on a cache miss, when both fetches succeed and the merged set is not
\* empty, getVariantMetrics returns exactly the merged set, whether or not
\* persisting it succeeds: freshly fetched data is never replaced by stale or
\* synthetic data in the result.
C27_MergedSetReturned ==
  \A p \in Procs :
    ( /\ hist[p].merged
      /\ Len(loc[p].variants) > 0
      /\ (hist[p].tier # "none" \/ hist[p].gvmRaised) )
    => (hist[p].tier = "live" /\ loc[p].result = loc[p].variants)


\* C28: paginate logs the "Pagination guard triggered" failure entry only
\* when it has made limitPages requests and the last page still reported
\* more pages; a run that stops earlier (last page reached, or a response
\* without the expected path) never logs a guard trip.
C28_GuardOnlyAtLimit ==
  paging.stage = "done" =>
    LET run == paging.run
        last == paging.source[run.sent[Len(run.sent)]]
    IN  (\E k \in 1..Len(run.logs) : run.logs[k] = "Pagination guard triggered") =>
          /\ Len(run.sent) = paging.limitPages
          /\ last.kind = "data" /\ last.hasPath /\ last.hasNextPage


\* C29: the three budget allocators agree: for the same rows and the same
\* budget, buildBudgetPlan (budget 18000), the dashboard's
\* buildBudgetPlanFromRows and the replenishment page's runBudgetPlanner
\* pick the same skus in the same order.
C29_AllocatorsAgree ==
  (plan.stage = "selected" /\ plan.budget = DefaultBudget) =>
    LET server == buildBudgetPlan(plan.rows).picks
        dashboard == buildBudgetPlanFromRows(plan.rows, DefaultBudget, TARGET_COVERAGE).picks
    IN  /\ [i \in 1..Len(server) |-> server[i].sku] = plan.selected
        /\ [i \in 1..Len(dashboard) |-> dashboard[i].sku] = plan.selected

====
